---- MODULE Spec2Model ----
(***************************************************************************)
(* LiveOS ISO builder (imagecustomizerlib): the saved-configuration merge, *)
(* the grub.cfg update with its opportunistic PXE derivation, and the two  *)
(* build flows (full image -> ISO, existing ISO -> ISO with unchanged OS), *)
(* run over one ISO lineage.                                               *)
(*                                                                         *)
(* Strings the code trims or concatenates (kernel extra arguments) are     *)
(* sequences of one-character strings; URLs are strings of which only      *)
(* emptiness and equality matter; a Go pointer is a set with at most one   *)
(* element (nil is the empty set); a file is the set of its contents (the  *)
(* empty set when the file does not exist).                                *)
(***************************************************************************)
EXTENDS Integers, Sequences, FiniteSets, TLC

\* iso:        the current ISO of the lineage (Nil before the first build)
\* isoBuilder: the LiveOSIsoBuilder createIsoBuilderFromIsoImage returned
\*             in this invocation (Nil when no input ISO was extracted)
\* last:       what the build of this invocation did (NoRun before it ran)
\* runs:       the builds run so far on the lineage
\* grub:       the grub.cfg files of one artifacts directory, as text (GrubSpec)
\* ops:        the steps one operation took and the resources it holds (StepSpec)
\* scan:       one classification of a file tree and what followed it (ScanSpec)
VARIABLES iso, isoBuilder, last, runs, grub, ops, scan, disk, fsys

vars == <<iso, isoBuilder, last, runs, grub, ops, scan, disk, fsys>>

\* the variables of the ISO lineage, and those of the other views
lineageVars == <<iso, isoBuilder, last, runs>>

(* ------------------------------ bounds -------------------------------- *)

\* customization runs on the lineage
MaxRuns == 2

(* ------------------------------ inputs -------------------------------- *)

Nil == {}

\* extra kernel command lines a user may give (iso.kernelCommandLine.extraCommandLine)
KernelArgsInputs == { <<>>, <<"a">>, <<"b">>, <<" ", "a", " ">> }

\* PXE URLs a user may give; "" is "not set"
UrlInputs == { "", "http://h/u1", "http://h/u2" }

\* the external step that fails in a run ("none": every external step succeeds)
FullImageFailures == { "none", "prepare", "load", "persist", "grubRewrite",
                       "grubWrite", "pxeGrubCfg", "generate", "isoMaker", "pxeDir" }

UnchangedOSFailures == { "none", "load", "persist", "grubRewrite",
                         "grubWrite", "pxeGrubCfg", "isoMaker", "pxeDir" }

(* ------------------------------ strings ------------------------------- *)

IsSpace(c) == c = " "

RECURSIVE TrimLeft(_)
TrimLeft(s) == IF s # <<>> /\ IsSpace(Head(s)) THEN TrimLeft(Tail(s)) ELSE s

RECURSIVE TrimRight(_)
TrimRight(s) ==
    IF s # <<>> /\ IsSpace(s[Len(s)]) THEN TrimRight(SubSeq(s, 1, Len(s) - 1)) ELSE s

\* strings.TrimSpace
TrimSpace(s) == TrimRight(TrimLeft(s))

IsPrefix(p, s) == Len(p) <= Len(s) /\ SubSeq(s, 1, Len(p)) = p

(* ------------------------- saved configurations ----------------------- *)

\* the pointed-to value of a non-nil pointer / the content of an existing file
Deref(p) == CHOOSE x \in p : TRUE

SavedConfigs(args, baseUrl, fileUrl, info) ==
    [ ExtraCommandLine  |-> args,
      IsoImageBaseUrl   |-> baseUrl,
      IsoImageFileUrl   |-> fileUrl,
      DracutPackageInfo |-> info ]

\* loadSavedConfigs: nil (and no error) when the file does not exist, else
\* the configuration the file holds
loadSavedConfigs(file) == file

\* persistSavedConfigs: the file holds the configuration afterwards
persistSavedConfigs(cfg) == {cfg}

\* minimum dracut version with the PXE (livenet download) support
MinPxeDracutVersion == 2

\* the versions a rootfs may carry: one below the minimum, and the minimum
DracutVersions == { MinPxeDracutVersion - 1, MinPxeDracutVersion }

\* what getDracutVersion may find in an expanded rootfs
RootfsDracutInfos == { {[version |-> v]} : v \in DracutVersions }

\* verifyDracutPXESupport: "" when the package information is present and
\* its version reaches the minimum, else the error
verifyDracutPXESupport(info) ==
    IF info = Nil THEN "no dracut package information"
    ELSE IF Deref(info).version < MinPxeDracutVersion
         THEN "dracut version below the PXE minimum"
         ELSE ""

MutExtraCommandLineNewFirst(savedArgs, newKernelArgs) ==
    IF savedArgs # <<>>
    THEN TrimSpace(newKernelArgs) \o <<" ">> \o TrimSpace(savedArgs)
    ELSE newKernelArgs

MutExtraCommandLineNoTrim(savedArgs, newKernelArgs) ==
    IF savedArgs # <<>>
    THEN savedArgs \o <<" ">> \o newKernelArgs
    ELSE newKernelArgs

\* updateSavedConfigs, kernel arguments, with a previous configuration
MergeExtraCommandLine(savedArgs, newKernelArgs) ==
    IF savedArgs # <<>>
    THEN TrimSpace(savedArgs) \o <<" ">> \o TrimSpace(newKernelArgs)
    ELSE newKernelArgs

MutCarryUrlNever(newUrl, savedUrl) == newUrl

\* updateSavedConfigs, one URL field: the previous value when this run sets none
CarryUrl(newUrl, savedUrl) ==
    IF newUrl = "" /\ savedUrl # "" THEN savedUrl ELSE newUrl

MutClearOtherUrlNever(url, newOtherUrl) == url

\* updateSavedConfigs, one URL field: unset when this run sets the other one
ClearOtherUrl(url, newOtherUrl) ==
    IF newOtherUrl # "" THEN "" ELSE url

MutDracutPackageInfoNewOnly(savedInfo, newDracutPackageInfo) == newDracutPackageInfo

\* updateSavedConfigs, package information: the previous one when this run has none
MergeDracutPackageInfo(savedInfo, newDracutPackageInfo) ==
    IF newDracutPackageInfo = Nil THEN savedInfo ELSE newDracutPackageInfo

\* updateSavedConfigs, from the load to just before the persist: the
\* configuration built from the new values, overridden field by field only
\* when a previous configuration was loaded
MergeSavedConfigs(savedConfigs, newKernelArgs, newBaseUrl, newFileUrl, newInfo) ==
    IF savedConfigs = Nil
    THEN SavedConfigs(newKernelArgs, newBaseUrl, newFileUrl, newInfo)
    ELSE LET saved == Deref(savedConfigs)
         IN SavedConfigs(
              MergeExtraCommandLine(saved.ExtraCommandLine, newKernelArgs),
              ClearOtherUrl(CarryUrl(newBaseUrl, saved.IsoImageBaseUrl), newFileUrl),
              ClearOtherUrl(CarryUrl(newFileUrl, saved.IsoImageFileUrl), newBaseUrl),
              MergeDracutPackageInfo(saved.DracutPackageInfo, newInfo))

UpdateResult(cfg, err, file, persisted) ==
    [cfg |-> cfg, err |-> err, file |-> file, persisted |-> persisted]

MutUpdateSavedConfigsPersistOnlyMerged(file, newKernelArgs, newBaseUrl, newFileUrl, newInfo, fail) ==
    IF fail = "load"
    THEN UpdateResult(Nil, "failed to load saved configurations", file, FALSE)
    ELSE LET savedConfigs == loadSavedConfigs(file)
             updated == MergeSavedConfigs(savedConfigs, newKernelArgs, newBaseUrl,
                                          newFileUrl, newInfo)
         IN IF fail = "persist"
            THEN UpdateResult(Nil, "failed to save iso configs", file, FALSE)
            ELSE IF savedConfigs = Nil
                 THEN UpdateResult({updated}, "", file, FALSE)
                 ELSE UpdateResult({updated}, "", persistSavedConfigs(updated), TRUE)

\* updateSavedConfigs: load, merge, persist; returns the merged configuration
\* (nil with an error), and leaves the file as the persist step wrote it
updateSavedConfigs(file, newKernelArgs, newBaseUrl, newFileUrl, newInfo, fail) ==
    IF fail = "load"
    THEN UpdateResult(Nil, "failed to load saved configurations", file, FALSE)
    ELSE LET savedConfigs == loadSavedConfigs(file)
             updated == MergeSavedConfigs(savedConfigs, newKernelArgs, newBaseUrl,
                                          newFileUrl, newInfo)
         IN IF fail = "persist"
            THEN UpdateResult(Nil, "failed to save iso configs", file, FALSE)
            ELSE UpdateResult({updated}, "", persistSavedConfigs(updated), TRUE)

(* ------------------------------ grub.cfg ------------------------------ *)

ErrPxeConflict == "cannot set both iso image base url and full image url at the same time."

PxeResult(err, written) == [err |-> err, written |-> written]

\* generatePxeGrubCfg: the conflict check, the derivation of the PXE
\* configuration (search removal, root=, kernel arguments), the write
generatePxeGrubCfg(pxeIsoImageBaseUrl, pxeIsoImageFileUrl, fail) ==
    IF pxeIsoImageBaseUrl # "" /\ pxeIsoImageFileUrl # ""
    THEN PxeResult(ErrPxeConflict, FALSE)
    ELSE IF fail = "pxeGrubCfg"
         THEN PxeResult("failed to derive or write the PXE grub.cfg", FALSE)
         ELSE PxeResult("", TRUE)

GrubResult(err, isoWritten, pxeWritten, verifyErr) ==
    [err |-> err, isoWritten |-> isoWritten, pxeWritten |-> pxeWritten,
     verifyErr |-> verifyErr]

MutUpdateGrubCfgVerifyFatal(savedConfigs, fail) ==
    IF fail = "grubRewrite"
    THEN GrubResult("failed to update the iso grub.cfg", FALSE, FALSE, "")
    ELSE IF fail = "grubWrite"
    THEN GrubResult("failed to write the iso grub.cfg", FALSE, FALSE, "")
    ELSE LET verifyErr == verifyDracutPXESupport(savedConfigs.DracutPackageInfo)
         IN IF verifyErr # ""
            THEN GrubResult("cannot generate grub.cfg for PXE booting.", TRUE, FALSE, verifyErr)
            ELSE LET pxe == generatePxeGrubCfg(savedConfigs.IsoImageBaseUrl,
                                               savedConfigs.IsoImageFileUrl, fail)
                 IN IF pxe.err # ""
                    THEN GrubResult(pxe.err, TRUE, FALSE, "")
                    ELSE GrubResult("", TRUE, pxe.written, "")

\* updateGrubCfg: read and rewrite the ISO grub.cfg, write it, then derive
\* the PXE grub.cfg when the dracut version supports PXE
updateGrubCfg(savedConfigs, fail) ==
    IF fail = "grubRewrite"
    THEN GrubResult("failed to update the iso grub.cfg", FALSE, FALSE, "")
    ELSE IF fail = "grubWrite"
    THEN GrubResult("failed to write the iso grub.cfg", FALSE, FALSE, "")
    ELSE LET verifyErr == verifyDracutPXESupport(savedConfigs.DracutPackageInfo)
         IN IF verifyErr # ""
            THEN GrubResult("", TRUE, FALSE, verifyErr)
            ELSE LET pxe == generatePxeGrubCfg(savedConfigs.IsoImageBaseUrl,
                                               savedConfigs.IsoImageFileUrl, fail)
                 IN IF pxe.err # ""
                    THEN GrubResult(pxe.err, TRUE, FALSE, "")
                    ELSE GrubResult("", TRUE, pxe.written, "")

(* --------------------------- ISO / PXE assembly ----------------------- *)

ErrPxeFolder == "cannot generate the PXE artifacts folder."

AssemblyResult(err, isoMade, pxeDirPopulated) ==
    [err |-> err, isoMade |-> isoMade, pxeDirPopulated |-> pxeDirPopulated]

\* createIsoImageAndPXEFolder: the ISO writer, then, when a PXE artifacts
\* directory was requested, the PXE support check and populatePXEArtifactsDir
createIsoImageAndPXEFolder(dracutPackageInfo, pxeDirRequested, fail) ==
    IF fail = "isoMaker"
    THEN AssemblyResult("failed to create the iso image", FALSE, FALSE)
    ELSE IF ~pxeDirRequested
    THEN AssemblyResult("", TRUE, FALSE)
    ELSE IF verifyDracutPXESupport(dracutPackageInfo) # ""
    THEN AssemblyResult(ErrPxeFolder, TRUE, FALSE)
    ELSE IF fail = "pxeDir"
    THEN AssemblyResult("failed to populate the PXE artifacts directory", TRUE, FALSE)
    ELSE AssemblyResult("", TRUE, TRUE)

(* --------------------------- grub.cfg as text ------------------------- *)

\* A grub.cfg is a sequence of command lines; a line is its command and its
\* words; a word is a sequence of text pieces (<<"root=", "/dev/sda1">> is
\* the word root=/dev/sda1). The first word of a linux or initrd line is the
\* path it loads, the other words of a linux line are the kernel arguments.
Line(cmd, words) == [cmd |-> cmd, words |-> words]

Word(text) == <<text>>

linuxCommand == "linux"

initrdCommand == "initrd"

\* isomakerlib.DefaultVolumeId
DefaultVolumeId == "CDROM"

\* fmt.Sprintf(searchCommandTemplate, isomakerlib.DefaultVolumeId)
searchCommand == Line("search", << Word("--label"), Word(DefaultVolumeId), Word("--set"), Word("root") >>)

\* fmt.Sprintf(rootValueLiveOSTemplate, isomakerlib.DefaultVolumeId)
rootValueLiveOS == << "live:LABEL=", DefaultVolumeId >>

isoKernelPath == "/boot/vmlinuz"

isoInitrdPath == "/boot/initrd.img"

\* fmt.Sprintf(kernelArgsLiveOSTemplate, liveOSDir, liveOSImage), word by word
liveosKernelArgs == << Word("rd.shell"), Word("rd.live.image"), <<"rd.live.dir=", "liveos">>, <<"rd.live.squashimg=", "rootfs.img">>, Word("rd.live.overlay=1"), Word("rd.live.overlay.overlayfs"), Word("rd.live.overlay.nouserconfirmprompt") >>

pxeKernelsArgs == << Word("ip=dhcp"), Word("rd.live.azldownloader=enable") >>

\* the words of a command-line text: the runs of non-space characters
RECURSIVE Fields(_)
Fields(s) ==
    LET t == TrimLeft(s)
        n == IF \E i \in 1..Len(t) : IsSpace(t[i])
             THEN (CHOOSE i \in 1..Len(t) : IsSpace(t[i]) /\ \A j \in 1..(i - 1) : ~IsSpace(t[j])) - 1
             ELSE Len(t)
    IN IF t = <<>> THEN <<>>
       ELSE <<SubSeq(t, 1, n)>> \o Fields(SubSeq(t, n + 1, Len(t)))

MapLines(cfg, F(_)) == [i \in 1..Len(cfg) |-> F(cfg[i])]

MapWords(line, F(_)) == [line EXCEPT !.words = [i \in 1..Len(line.words) |-> F(line.words[i])]]

IsCommand(line, cmd) == line.cmd = cmd

HasCommand(cfg, cmd) == \E i \in 1..Len(cfg) : IsCommand(cfg[i], cmd)

FirstCommand(cfg, cmd) == CHOOSE i \in 1..Len(cfg) : IsCommand(cfg[i], cmd) /\ \A j \in 1..(i - 1) : ~IsCommand(cfg[j], cmd)

\* the result of a text transform: the new text, what it found, the error
TextResult(cfg, old, err) == [cfg |-> cfg, old |-> old, err |-> err]

\* replaceSearchCommandAll: every search command becomes the given one
replaceSearchCommandAll(cfg, command) == MapLines(cfg, LAMBDA l : IF IsCommand(l, "search") THEN command ELSE l)

MutRemoveCommandKeepsAll(cfg, cmd) == cfg

\* removeCommandAll: the lines of the command are dropped
removeCommandAll(cfg, cmd) == SelectSeq(cfg, LAMBDA l : ~IsCommand(l, cmd))

\* isGrubMkconfigConfig: the structural marker of a grub-mkconfig file
isGrubMkconfigConfig(cfg) == HasCommand(cfg, "### BEGIN /etc/grub.d")

SetPath(line, path) == [line EXCEPT !.words = <<Word(path)>> \o Tail(line.words)]

\* setLinuxPath / setInitrdPath: the path of the first line of the command
\* is set, and the path it had is returned
setLinuxOrInitrdPath(cfg, cmd, path) ==
    IF ~HasCommand(cfg, cmd)
    THEN TextResult(cfg, "", "command not found")
    ELSE LET i == FirstCommand(cfg, cmd)
         IN TextResult([cfg EXCEPT ![i] = SetPath(cfg[i], path)], cfg[i].words[1][1], "")

\* setLinuxOrInitrdPathAll with allowMultiple: the path of every line of the
\* command is set
setLinuxOrInitrdPathAll(cfg, cmd, path) ==
    IF ~HasCommand(cfg, cmd)
    THEN TextResult(cfg, "", "command not found")
    ELSE TextResult(MapLines(cfg, LAMBDA l : IF IsCommand(l, cmd) THEN SetPath(l, path) ELSE l), "", "")

\* replaceToken: every word that is exactly the old token becomes the new one
replaceToken(cfg, oldToken, newToken) == MapLines(cfg, LAMBDA l : MapWords(l, LAMBDA w : IF w = Word(oldToken) THEN Word(newToken) ELSE w))

IsArg(word, name) == word # <<>> /\ Head(word) = name

\* replaceKernelCommandLineArgValueAll with allowMultiple: the value of the
\* named argument is replaced on every linux line
replaceKernelCommandLineArgValueAll(cfg, name, value) == MapLines(cfg, LAMBDA l : IF IsCommand(l, linuxCommand) THEN MapWords(l, LAMBDA w : IF IsArg(w, name) THEN <<name>> \o value ELSE w) ELSE l)

\* appendKernelCommandLineArgsAll with allowMultiple: the words are appended
\* to every linux line
appendKernelCommandLineArgsAll(cfg, args) == MapLines(cfg, LAMBDA l : IF IsCommand(l, linuxCommand) THEN [l EXCEPT !.words = @ \o args] ELSE l)

\* updateSELinuxCommandLineHelperAll for SELinuxModeDisabled, on one line: the
\* other SELinux arguments are dropped and selinux= is set to 0 where it is,
\* or appended when the line has none
DisableSELinux(words) ==
    LET kept == SelectSeq(words, LAMBDA w : ~IsArg(w, "security=") /\ ~IsArg(w, "enforcing="))
    IN IF \E i \in 1..Len(kept) : IsArg(kept[i], "selinux=")
       THEN [i \in 1..Len(kept) |-> IF IsArg(kept[i], "selinux=") THEN <<"selinux=", "0">> ELSE kept[i]]
       ELSE Append(kept, <<"selinux=", "0">>)

updateSELinuxCommandLineHelperAll(cfg) == MapLines(cfg, LAMBDA l : IF IsCommand(l, linuxCommand) THEN [l EXCEPT !.words = DisableSELinux(@)] ELSE l)

(* ------------------------------ PXE URLs ------------------------------ *)

\* url.Parse over the URLs of the inputs: the scheme and host, and the path
\* as its pieces ("/" is the separator, any other piece is a name)
UrlParts(origin, path) == [origin |-> origin, path |-> path]

ParseUrl(u) ==
    CASE u = "" -> UrlParts("", <<>>)
      [] u = "http://host" -> UrlParts("http://host", <<>>)
      [] u = "http://host/liveos" -> UrlParts("http://host", <<"/", "liveos">>)
      [] u = "http://host/liveos/" -> UrlParts("http://host", <<"/", "liveos", "/">>)
      [] u = "http://host/a/../liveos" -> UrlParts("http://host", <<"/", "a", "/", "..", "/", "liveos">>)
      [] OTHER -> UrlParts(u, <<>>)

\* the names of a path: the runs of pieces between separators, empty runs dropped
RECURSIVE PathNames(_, _)
PathNames(path, name) ==
    IF path = <<>> THEN (IF name = <<>> THEN <<>> ELSE <<name>>)
    ELSE IF Head(path) = "/"
    THEN (IF name = <<>> THEN <<>> ELSE <<name>>) \o PathNames(Tail(path), <<>>)
    ELSE PathNames(Tail(path), Append(name, Head(path)))

\* path.Clean on the names: "." is dropped, ".." drops the name before it
RECURSIVE CleanNames(_, _)
CleanNames(names, done) ==
    IF names = <<>> THEN done
    ELSE IF Head(names) = <<".">> THEN CleanNames(Tail(names), done)
    ELSE IF Head(names) = <<"..">>
    THEN CleanNames(Tail(names), IF done = <<>> THEN <<>> ELSE SubSeq(done, 1, Len(done) - 1))
    ELSE CleanNames(Tail(names), Append(done, Head(names)))

RECURSIVE JoinNames(_)
JoinNames(names) == IF names = <<>> THEN <<>> ELSE <<"/">> \o Head(names) \o JoinNames(Tail(names))

\* url.JoinPath(base, elem): the path of the base and the element are joined
\* by path.Join, which cleans the result; a URL without host and without a
\* leading separator stays relative
JoinPath(base, elem) ==
    LET u == ParseUrl(base)
        p == JoinNames(CleanNames(PathNames(u.path \o <<"/">> \o elem, <<>>), <<>>))
    IN IF u.origin = "" /\ (u.path = <<>> \/ Head(u.path) # "/")
       THEN Tail(p)
       ELSE <<u.origin>> \o p

MutImageNameNoExtension(isoOutputBaseName) == [baseName |-> isoOutputBaseName, name |-> <<isoOutputBaseName>>]

\* getImageNameFromImageBaseName: {isoOutputBaseName}{releaseVersion}{imageNameTag}.iso
\* with an empty release version and an empty tag
getImageNameFromImageBaseName(isoOutputBaseName) == [baseName |-> isoOutputBaseName, name |-> <<isoOutputBaseName, ".iso">>]

\* the value generatePxeGrubCfg gives to root=: rootValuePxeTemplate over the
\* file URL, or over the base URL joined with the image name
PxeRootValue(pxeIsoImageBaseUrl, pxeIsoImageFileUrl, outputImageBase) ==
    IF pxeIsoImageFileUrl = ""
    THEN <<"live:">> \o JoinPath(pxeIsoImageBaseUrl, getImageNameFromImageBaseName(outputImageBase).name)
    ELSE <<"live:", pxeIsoImageFileUrl>>

\* the texts an update of the grub.cfg leaves: the ISO grub.cfg and the PXE
\* grub.cfg (Nil when not written), and the error
GrubTexts(err, isoCfg, pxeCfg) == [err |-> err, isoCfg |-> isoCfg, pxeCfg |-> pxeCfg]

\* generatePxeGrubCfg on the text
generatePxeGrubCfgText(cfg, pxeIsoImageBaseUrl, pxeIsoImageFileUrl, outputImageBase, fail) ==
    IF pxeIsoImageBaseUrl # "" /\ pxeIsoImageFileUrl # ""
    THEN [err |-> ErrPxeConflict, cfg |-> Nil]
    ELSE LET c1 == removeCommandAll(cfg, "search")
             rootValue == PxeRootValue(pxeIsoImageBaseUrl, pxeIsoImageFileUrl, outputImageBase)
             c2 == replaceKernelCommandLineArgValueAll(c1, "root=", rootValue)
             c3 == appendKernelCommandLineArgsAll(c2, pxeKernelsArgs)
         IN IF fail = "pxeGrubCfg"
            THEN [err |-> "failed to write the PXE grub.cfg", cfg |-> Nil]
            ELSE [err |-> "", cfg |-> {c3}]

MutRewritePathFirstOnly(cfg, cmd, path) == setLinuxOrInitrdPath(cfg, cmd, path)

\* the rewrite of a load path in a grub.cfg that grub-mkconfig did not
\* generate: the path of the first line of the command is set, then every
\* occurrence of the path it had is replaced
RewritePath(cfg, cmd, path) ==
    LET r == setLinuxOrInitrdPath(cfg, cmd, path)
    IN IF r.err # "" THEN r
       ELSE TextResult(replaceToken(r.cfg, r.old, path), r.old, "")

\* the load paths of the ISO: both branches of updateGrubCfg
RewritePaths(cfg) ==
    IF ~isGrubMkconfigConfig(cfg)
    THEN LET k == RewritePath(cfg, linuxCommand, isoKernelPath)
         IN IF k.err # "" THEN k ELSE RewritePath(k.cfg, initrdCommand, isoInitrdPath)
    ELSE LET k == setLinuxOrInitrdPathAll(cfg, linuxCommand, isoKernelPath)
         IN IF k.err # "" THEN k ELSE setLinuxOrInitrdPathAll(k.cfg, initrdCommand, isoInitrdPath)

\* updateGrubCfg on the text: the search command, the load paths, root=, the
\* SELinux mode and the appended arguments; the write; the PXE derivation
updateGrubCfgText(cfg, savedConfigs, outputImageBase, fail) ==
    LET c1 == replaceSearchCommandAll(cfg, searchCommand)
        p  == RewritePaths(c1)
    IN IF p.err # "" THEN GrubTexts("failed to update the file path in the iso grub.cfg", Nil, Nil)
       ELSE LET c2 == replaceKernelCommandLineArgValueAll(p.cfg, "root=", rootValueLiveOS)
                c3 == updateSELinuxCommandLineHelperAll(c2)
                additionalKernelCommandline == liveosKernelArgs \o Fields(savedConfigs.ExtraCommandLine)
                c4 == appendKernelCommandLineArgsAll(c3, additionalKernelCommandline)
            IN IF fail = "grubWrite" THEN GrubTexts("failed to write the iso grub.cfg", Nil, Nil)
               ELSE IF verifyDracutPXESupport(savedConfigs.DracutPackageInfo) # ""
               THEN GrubTexts("", {c4}, Nil)
               ELSE LET pxe == generatePxeGrubCfgText(c4, savedConfigs.IsoImageBaseUrl, savedConfigs.IsoImageFileUrl, outputImageBase, fail)
                    IN GrubTexts(pxe.err, {c4}, pxe.cfg)

(* ------------------------------ the builds ---------------------------- *)

\* what a run did: its inputs, the saved-configuration file before and
\* after, what it wrote, and the error it returned ("" is nil)
NoRun ==
    [ op |-> "none", hadInputIso |-> FALSE,
      newKernelArgs |-> <<>>, newBaseUrl |-> "", newFileUrl |-> "", newInfo |-> Nil,
      pxeDirRequested |-> FALSE, fail |-> "none",
      merged |-> FALSE, prevFile |-> Nil, updated |-> Nil,
      persisted |-> FALSE, file |-> Nil,
      isoGrubWritten |-> FALSE, pxeGrubWritten |-> FALSE, verifyErr |-> "",
      isoMade |-> FALSE, pxeDirPopulated |-> FALSE, err |-> "" ]

\* the part of a build both flows share: updateSavedConfigs, updateGrubCfg,
\* (the squashfs and initrd generation of the full-image flow), then
\* createIsoImageAndPXEFolder; each error returns at once
RunPipeline(run, file, assemblyInfoIsNew, generates) ==
    LET upd == updateSavedConfigs(file, run.newKernelArgs, run.newBaseUrl,
                                  run.newFileUrl, run.newInfo, run.fail)
        r1  == [run EXCEPT !.merged = TRUE, !.prevFile = file, !.updated = upd.cfg,
                           !.persisted = upd.persisted, !.file = upd.file,
                           !.err = upd.err]
    IN IF upd.err # "" THEN r1
       ELSE LET cfg  == Deref(upd.cfg)
                grubRes == updateGrubCfg(cfg, run.fail)
                r2   == [r1 EXCEPT !.isoGrubWritten = grubRes.isoWritten,
                                   !.pxeGrubWritten = grubRes.pxeWritten,
                                   !.verifyErr = grubRes.verifyErr,
                                   !.err = grubRes.err]
            IN IF grubRes.err # "" THEN r2
               ELSE IF generates /\ run.fail = "generate"
               THEN [r2 EXCEPT !.err = "failed to generate the squashfs or initrd image"]
               ELSE LET info == IF assemblyInfoIsNew THEN run.newInfo
                                ELSE cfg.DracutPackageInfo
                        asm  == createIsoImageAndPXEFolder(info, run.pxeDirRequested,
                                                           run.fail)
                    IN [r2 EXCEPT !.isoMade = asm.isoMade,
                                  !.pxeDirPopulated = asm.pxeDirPopulated,
                                  !.err = asm.err]

\* createLiveOSIsoImage: the saved-configuration file of the input ISO, when
\* there is one, is copied to the artifacts directory before the merge; the
\* package information is the one found in the rootfs
createLiveOSIsoImage(inputIsoArtifacts, newKernelArgs, newBaseUrl, newFileUrl, rootfsInfo, pxeDirRequested, fail) ==
    LET run == [NoRun EXCEPT !.op = "createLiveOSIsoImage",
                             !.hadInputIso = (inputIsoArtifacts # Nil),
                             !.newKernelArgs = newKernelArgs,
                             !.newBaseUrl = newBaseUrl, !.newFileUrl = newFileUrl,
                             !.newInfo = rootfsInfo,
                             !.pxeDirRequested = pxeDirRequested, !.fail = fail]
        inputSavedConfigsFile ==
            IF inputIsoArtifacts # Nil
            THEN Deref(inputIsoArtifacts).savedConfigsFile ELSE Nil
    IN IF fail = "prepare"
       THEN [run EXCEPT !.err = "failed to prepare the LiveOS artifacts"]
       ELSE RunPipeline(run, inputSavedConfigsFile, TRUE, TRUE)

\* createImageFromUnchangedOS: merges into the saved-configuration file
\* extracted from the input ISO, with the builder's package information
\* (nil after createIsoBuilderFromIsoImage), and takes the package
\* information from the merged configuration
createImageFromUnchangedOS(b, newKernelArgs, newBaseUrl, newFileUrl, pxeDirRequested, fail) ==
    LET run == [NoRun EXCEPT !.op = "createImageFromUnchangedOS",
                             !.hadInputIso = TRUE,
                             !.newKernelArgs = newKernelArgs,
                             !.newBaseUrl = newBaseUrl, !.newFileUrl = newFileUrl,
                             !.newInfo = b.dracutPackageInfo,
                             !.pxeDirRequested = pxeDirRequested, !.fail = fail]
    IN RunPipeline(run, b.savedConfigsFile, FALSE, FALSE)

\* createIsoBuilderFromIsoImage: the artifact table filled from the scan of
\* the extracted ISO; the package information is not among what it fills
createIsoBuilderFromIsoImage(image) ==
    [ savedConfigsFile |-> image.savedConfigsFile, dracutPackageInfo |-> Nil ]

(* ---------------------------- state machine --------------------------- *)

\* the other views at rest
NoGrub == [ op |-> "none" ]

NoOp == [ op |-> "none" ]

NoScan == [ op |-> "none" ]

NoDisk == [ op |-> "none" ]

NoFsys == [ op |-> "none" ]

\* an ISO of the lineage: the saved-configuration file on its media
IsoImage(savedConfigsFile) == [ savedConfigsFile |-> savedConfigsFile ]

\* no ISO yet, or an ISO that carries no saved-configuration file
Init ==
    /\ iso \in { Nil, {IsoImage(Nil)} }
    /\ isoBuilder = Nil
    /\ last = NoRun
    /\ runs = 0
    /\ grub = NoGrub
    /\ disk = NoDisk /\ fsys = NoFsys
    /\ ops = NoOp
    /\ scan = NoScan

\* the ISO of the lineage after a run: the one the ISO writer produced (it
\* carries the persisted configuration, and exists also when the PXE step
\* after it failed), else the one there was
IsoAfter(run) == IF run.isoMade THEN {IsoImage(run.file)} ELSE iso

\* a new invocation of the customizer: no builder, no result yet
StartCustomization ==
    /\ last.op # "none"
    /\ runs < MaxRuns
    /\ last' = NoRun
    /\ isoBuilder' = Nil
    /\ UNCHANGED <<iso, runs, grub, ops, scan, disk, fsys>>

ExtractInputIso ==
    /\ last.op = "none"
    /\ iso # Nil
    /\ isoBuilder = Nil
    /\ runs < MaxRuns
    /\ isoBuilder' = {createIsoBuilderFromIsoImage(Deref(iso))}
    /\ UNCHANGED <<iso, last, runs, grub, ops, scan, disk, fsys>>

BuildFromFullImage ==
    /\ last.op = "none"
    /\ runs < MaxRuns
    /\ \E newKernelArgs \in KernelArgsInputs, newBaseUrl \in UrlInputs,
          newFileUrl \in UrlInputs, rootfsInfo \in RootfsDracutInfos,
          pxeDirRequested \in BOOLEAN, fail \in FullImageFailures :
          LET run == createLiveOSIsoImage(isoBuilder, newKernelArgs, newBaseUrl,
                                          newFileUrl, rootfsInfo, pxeDirRequested, fail)
          IN /\ last' = run
             /\ iso' = IsoAfter(run)
    /\ isoBuilder' = isoBuilder
    /\ runs' = runs + 1
    /\ UNCHANGED <<grub, ops, scan, disk, fsys>>

BuildFromUnchangedOS ==
    /\ last.op = "none"
    /\ runs < MaxRuns
    /\ isoBuilder # Nil
    /\ \E newKernelArgs \in KernelArgsInputs, newBaseUrl \in UrlInputs,
          newFileUrl \in UrlInputs, pxeDirRequested \in BOOLEAN,
          fail \in UnchangedOSFailures :
          LET run == createImageFromUnchangedOS(Deref(isoBuilder), newKernelArgs,
                                                newBaseUrl, newFileUrl,
                                                pxeDirRequested, fail)
          IN /\ last' = run
             /\ iso' = IsoAfter(run)
    /\ isoBuilder' = isoBuilder
    /\ runs' = runs + 1
    /\ UNCHANGED <<grub, ops, scan, disk, fsys>>

Next == StartCustomization \/ ExtractInputIso \/ BuildFromFullImage \/ BuildFromUnchangedOS

Spec == Init /\ [][Next]_vars

(* ----------------------- the grub.cfg of a lineage -------------------- *)

\* builds of the grub.cfg view
MaxGrubBuilds == 2

RootArg(dev) == <<"root=", dev>>

Entry(kernel, initrd, args) == << Line("menuentry", <<Word("Azure Linux")>>), Line(linuxCommand, <<Word(kernel)>> \o args), Line(initrdCommand, <<Word(initrd)>>) >>

OldSearch == Line("search", << Word("-n"), Word("-u"), Word("rootfs-uuid"), Word("-s") >>)

\* two entries that load the same kernel and the same initrd
TwoEntriesGrubCfg == <<OldSearch>> \o Entry("/old/vmlinuz", "/old/initrd.img", <<RootArg("/dev/sda1"), <<"security=", "selinux">>, Word("quiet")>>) \o Entry("/old/vmlinuz", "/old/initrd.img", <<RootArg("/dev/sda1"), Word("single")>>)

OneEntryGrubCfg == <<OldSearch>> \o Entry("/boot/vmlinuz-5.15.0", "/boot/initramfs-5.15.0.img", <<RootArg("PARTUUID=1"), Word("/boot/vmlinuz-5.15.0")>>)

\* two entries with different kernels
TwoKernelsGrubCfg == Entry("/boot/vmlinuz-5.15.0", "/boot/initramfs-5.15.0.img", <<RootArg("/dev/sda1")>>) \o Entry("/boot/vmlinuz-5.10.0", "/boot/initramfs-5.10.0.img", <<RootArg("/dev/sda1")>>)

\* a grub.cfg of grub-mkconfig
MkconfigGrubCfg == <<Line("### BEGIN /etc/grub.d", <<>>), OldSearch>> \o TwoKernelsGrubCfg

\* a grub.cfg that loads no kernel
NoKernelGrubCfg == <<OldSearch, Line("menuentry", <<Word("Empty")>>)>>

\* the /boot/grub2/grub.cfg a full image may carry
RootfsGrubCfgs == { TwoEntriesGrubCfg, OneEntryGrubCfg, TwoKernelsGrubCfg, MkconfigGrubCfg, NoKernelGrubCfg }

PxeBaseUrls == { "", "http://host", "http://host/liveos", "http://host/liveos/", "http://host/a/../liveos" }

PxeFileUrls == { "", "http://host/images/custom.iso" }

OutputImageBases == { "myimage" }

GrubFailures == { "none", "grubWrite", "pxeGrubCfg" }

\* the result of updateSavedConfigs then updateGrubCfg on one artifacts directory
GrubBuild(op, builds, input, file, newKernelArgs, newBaseUrl, newFileUrl, newInfo, outputImageBase, squashfs, fail, prev) ==
    LET upd   == updateSavedConfigs(file, newKernelArgs, newBaseUrl, newFileUrl, newInfo, "none")
        texts == updateGrubCfgText(input, Deref(upd.cfg), outputImageBase, fail)
    IN [ op |-> op, builds |-> builds, input |-> input,
         newKernelArgs |-> newKernelArgs, newBaseUrl |-> newBaseUrl, newFileUrl |-> newFileUrl,
         outputImageBase |-> outputImageBase, fail |-> fail,
         savedConfigs |-> Deref(upd.cfg), savedConfigsFile |-> upd.file,
         isoGrubCfg |-> IF texts.isoCfg # Nil THEN Deref(texts.isoCfg) ELSE input,
         isoGrubWritten |-> texts.isoCfg # Nil,
         pxeGrubCfg |-> texts.pxeCfg, squashfs |-> squashfs, err |-> texts.err, prev |-> prev ]

GrubInit ==
    /\ grub = NoGrub
    /\ disk = NoDisk /\ fsys = NoFsys
    /\ iso = Nil /\ isoBuilder = Nil /\ last = NoRun /\ runs = 0
    /\ ops = NoOp /\ scan = NoScan

\* prepareLiveOSDir and createSquashfsImage in the full-image flow: the
\* grub.cfg is the one of the rootfs, the squashfs image is made from the rootfs
GrubFromFullImage ==
    /\ grub.op = "none"
    /\ \E input \in RootfsGrubCfgs, newKernelArgs \in KernelArgsInputs, newBaseUrl \in PxeBaseUrls,
          newFileUrl \in PxeFileUrls, rootfsInfo \in RootfsDracutInfos,
          outputImageBase \in OutputImageBases, fail \in GrubFailures :
          grub' = GrubBuild("createLiveOSIsoImage", 1, input, Nil, newKernelArgs, newBaseUrl, newFileUrl,
                            rootfsInfo, outputImageBase, "squashfs of the rootfs", fail, Nil)
    /\ UNCHANGED <<lineageVars, ops, scan, disk, fsys>>

\* createIsoBuilderFromIsoImage then createImageFromUnchangedOS on the ISO
\* the build before produced: the grub.cfg, the saved-configuration file and
\* the squashfs image are those of that ISO; the new URLs are those of the
\* build before or none
GrubFromUnchangedOS ==
    /\ grub.op # "none"
    /\ grub.err = ""
    /\ grub.builds < MaxGrubBuilds
    /\ \E newKernelArgs \in KernelArgsInputs, keepUrls \in BOOLEAN, fail \in GrubFailures :
          grub' = GrubBuild("createImageFromUnchangedOS", grub.builds + 1, grub.isoGrubCfg,
                            grub.savedConfigsFile, newKernelArgs,
                            IF keepUrls THEN grub.newBaseUrl ELSE "",
                            IF keepUrls THEN grub.newFileUrl ELSE "",
                            Nil, grub.outputImageBase, grub.squashfs, fail,
                            {[grub EXCEPT !.prev = Nil]})
    /\ UNCHANGED <<lineageVars, ops, scan, disk, fsys>>

GrubNext == GrubFromFullImage \/ GrubFromUnchangedOS

GrubSpec == GrubInit /\ [][GrubNext]_vars

(* ------------------- steps, resources and deferred calls -------------- *)

\* A function body is the sequence of its steps. A step is an external call
\* that may fail ("do"), a call that acquires resources ("acquire"), a defer
\* statement releasing resources when the function returns ("defer"), an
\* explicit release that may fail ("release"), a check decided by the data
\* ("check"), addCleanupDir ("register"), or a call of another function of
\* the builder ("call"). In every function a failed step returns at once.
Step(kind, name, res, body, ok) == [kind |-> kind, name |-> name, res |-> res, body |-> body, ok |-> ok]

Do(name) == Step("do", name, <<>>, <<>>, TRUE)

Acquire(name, res) == Step("acquire", name, res, <<>>, TRUE)

Defer(res) == Step("defer", "defer", res, <<>>, TRUE)

Release(name, res) == Step("release", name, <<res>>, <<>>, TRUE)

Check(name, ok) == Step("check", name, <<>>, <<>>, ok)

Register(dir) == Step("register", "addCleanupDir", <<dir>>, <<>>, TRUE)

\* an assignment to a slot of the artifact table
Assign(slot) == Step("assign", slot, <<>>, <<>>, TRUE)

Call(name, body) == Step("call", name, <<>>, body, TRUE)

\* the steps a failure can be injected at, in a body and in what it calls
RECURSIVE StepNames(_)
StepNames(steps) ==
    IF steps = <<>> THEN {}
    ELSE LET s == Head(steps)
         IN (IF s.kind \in {"do", "acquire", "release"} THEN {s.name}
             ELSE IF s.kind = "call" THEN StepNames(s.body) ELSE {})
            \union StepNames(Tail(steps))

Event(ev, what) == [ev |-> ev, what |-> what]

\* the state of an execution: the resources held, the events so far, the
\* error (a sequence of causes, empty for nil), the registered directories
Started == [held |-> {}, trace |-> <<>>, err |-> <<>>, cleanupDirs |-> <<>>]

Cause(kind, what) == <<kind, what>>

MutFailedIgnored(st, name) == [st EXCEPT !.trace = Append(@, Event("step", name))]

Failed(st, name) == [st EXCEPT !.trace = Append(@, Event("step", name)), !.err = <<Cause("step", name)>>]

Logged(st, ev, what) == [st EXCEPT !.trace = Append(@, Event(ev, what))]

RECURSIVE AcquireAll(_, _)
AcquireAll(st, res) ==
    IF res = <<>> THEN st
    ELSE AcquireAll([Logged(st, "acquire", Head(res)) EXCEPT !.held = @ \union {Head(res)}], Tail(res))

\* a release of what is held; releasing what is not held does nothing
ReleaseOne(st, r) == IF r \in st.held THEN [Logged(st, "release", r) EXCEPT !.held = @ \ {r}] ELSE st

RECURSIVE ReleaseAll(_, _)
ReleaseAll(st, res) == IF res = <<>> THEN st ELSE ReleaseAll(ReleaseOne(st, Head(res)), Tail(res))

RECURSIVE MutRunDefersInOrder(_, _)
MutRunDefersInOrder(st, defers) ==
    IF defers = <<>> THEN st
    ELSE MutRunDefersInOrder(ReleaseAll(st, Head(defers)), Tail(defers))

\* the deferred calls of a function run when it returns, last deferred first
RECURSIVE RunDefers(_, _)
RunDefers(st, defers) ==
    IF defers = <<>> THEN st
    ELSE RunDefers(ReleaseAll(st, defers[Len(defers)]), SubSeq(defers, 1, Len(defers) - 1))

\* the execution of a body from a state, with the step that fails
RECURSIVE ExecBody(_, _, _, _)
ExecBody(steps, fail, st, defers) ==
    IF steps = <<>> \/ st.err # <<>> THEN RunDefers(st, defers)
    ELSE LET s    == Head(steps)
             rest == Tail(steps)
         IN CASE s.kind = "do" ->
                   IF fail = s.name THEN ExecBody(rest, fail, Failed(st, s.name), defers)
                   ELSE ExecBody(rest, fail, Logged(st, "step", s.name), defers)
              [] s.kind = "check" ->
                   IF ~s.ok THEN ExecBody(rest, fail, Failed(st, s.name), defers)
                   ELSE ExecBody(rest, fail, Logged(st, "step", s.name), defers)
              [] s.kind = "acquire" ->
                   IF fail = s.name THEN ExecBody(rest, fail, Failed(st, s.name), defers)
                   ELSE ExecBody(rest, fail, AcquireAll(Logged(st, "step", s.name), s.res), defers)
              [] s.kind = "release" ->
                   IF fail = s.name THEN ExecBody(rest, fail, Failed(st, s.name), defers)
                   ELSE ExecBody(rest, fail, ReleaseAll(Logged(st, "step", s.name), s.res), defers)
              [] s.kind = "defer" -> ExecBody(rest, fail, st, Append(defers, s.res))
              [] s.kind = "assign" -> ExecBody(rest, fail, Logged(st, "assign", s.name), defers)
              [] s.kind = "register" ->
                   ExecBody(rest, fail, [st EXCEPT !.cleanupDirs = @ \o s.res], defers)
              [] s.kind = "call" ->
                   ExecBody(rest, fail, ExecBody(s.body, fail, Logged(st, "call", s.name), <<>>), defers)

Exec(steps, fail) == ExecBody(steps, fail, Started, <<>>)

(* ------------------------- the function bodies ------------------------ *)

Mounts == { "raw image mount", "iso mount", "squashfs mount" }

LoopDevices == { "raw image loop device", "iso loop device", "squashfs loop device" }

Chroots == { "raw image chroot", "dracut chroot" }

extractIsoImageContentsSteps == << Acquire("os.MkdirTemp(tmp-iso-mount)", <<"iso mount directory">>), Defer(<<"iso mount directory">>), Acquire("safeloopback.NewLoopback(iso)", <<"iso loop device">>), Defer(<<"iso loop device">>), Acquire("safemount.NewMount(iso)", <<"iso mount">>), Defer(<<"iso mount">>), Do("os.MkdirAll(isoExpansionFolder)"), Do("copyPartitionFiles(iso)"), Release("isoImageMount.CleanClose", "iso mount"), Release("isoImageLoopDevice.CleanClose", "iso loop device") >>

populateWriteableRootfsDirSteps == << Do("os.MkdirAll(writeableRootfsDir)"), Do("copyPartitionFiles(rootfs)") >>

updateSavedConfigsSteps == << Do("loadSavedConfigs"), Do("persistSavedConfigs") >>

generatePxeGrubCfgSteps == << Do("derive the PXE grub.cfg"), Do("file.Write(pxeGrubCfg)") >>

updateGrubCfgSteps(pxeSupported) == << Do("file.Read(isoGrubCfg)"), Do("rewrite the iso grub.cfg"), Do("file.Write(isoGrubCfg)") >> \o (IF pxeSupported THEN <<Call("generatePxeGrubCfg", generatePxeGrubCfgSteps)>> ELSE <<>>)

prepareLiveOSDirSteps(inputSavedConfigsExist, pxeSupported) == << Do("findKernelVersion"), Do("getDracutVersion"), Do("extractBootDirFiles"), Do("file.PathExists(inputSavedConfigsFilePath)") >> \o (IF inputSavedConfigsExist THEN <<Do("file.Copy(inputSavedConfigsFilePath)")>> ELSE <<>>) \o << Call("updateSavedConfigs", updateSavedConfigsSteps), Call("updateGrubCfg", updateGrubCfgSteps(pxeSupported)), Do("stageIsoMakerInitrdArtifacts"), Do("prepareRootfsForDracut") >>

createSquashfsImageSteps == << Do("os.Remove(squashfsImagePath)"), Do("mksquashfs") >>

MutGenerateInitrdImageNoDefer == << Do("safechroot.NewChroot"), Acquire("chroot.Initialize", <<"dracut chroot">>), Do("isPackageInstalled(squashfs-tools)"), Do("isPackageInstalled(tar)"), Do("isPackageInstalled(device-mapper)"), Do("isPackageInstalled(curl)"), Do("dracut"), Do("file.Copy(initrd)"), Assign("initrdImagePath"), Release("chroot.Close", "dracut chroot") >>

\* the checks of the packages the initrd generation requires, in the order of requiredRpms
requiredRpmChecks == << "isPackageInstalled(squashfs-tools)", "isPackageInstalled(tar)", "isPackageInstalled(device-mapper)", "isPackageInstalled(curl)" >>

MutGenerateInitrdImageSkipsCurl == << Do("safechroot.NewChroot"), Defer(<<"dracut chroot">>), Acquire("chroot.Initialize", <<"dracut chroot">>), Do("isPackageInstalled(squashfs-tools)"), Do("isPackageInstalled(tar)"), Do("isPackageInstalled(device-mapper)"), Do("dracut"), Do("file.Copy(initrd)"), Assign("initrdImagePath") >>

generateInitrdImageSteps == << Do("safechroot.NewChroot"), Defer(<<"dracut chroot">>), Acquire("chroot.Initialize", <<"dracut chroot">>) >> \o [i \in 1..Len(requiredRpmChecks) |-> Do(requiredRpmChecks[i])] \o << Do("dracut"), Do("file.Copy(initrd)"), Assign("initrdImagePath") >>

MutPrepareArtifactsInitrdFirst(inputSavedConfigsExist, pxeSupported) == << Acquire("connectToExistingImage", <<"raw image loop device", "raw image mount", "raw image chroot">>), Defer(<<"raw image chroot", "raw image mount", "raw image loop device">>), Call("populateWriteableRootfsDir", populateWriteableRootfsDirSteps), Call("generateInitrdImage", generateInitrdImageSteps), Call("prepareLiveOSDir", prepareLiveOSDirSteps(inputSavedConfigsExist, pxeSupported)), Call("createSquashfsImage", createSquashfsImageSteps) >>

prepareArtifactsFromFullImageSteps(inputSavedConfigsExist, pxeSupported) == << Acquire("connectToExistingImage", <<"raw image loop device", "raw image mount", "raw image chroot">>), Defer(<<"raw image chroot", "raw image mount", "raw image loop device">>), Call("populateWriteableRootfsDir", populateWriteableRootfsDirSteps), Call("prepareLiveOSDir", prepareLiveOSDirSteps(inputSavedConfigsExist, pxeSupported)), Call("createSquashfsImage", createSquashfsImageSteps), Call("generateInitrdImage", generateInitrdImageSteps) >>

createIsoImageSteps == << Do("file.PathExists(savedConfigsFilePath)"), Do("file.PathExists(pxeGrubCfgPath)"), Do("os.MkdirAll(isoOutputDir)"), Do("isomakerlib.NewIsoMakerWithConfig"), Do("isoMaker.Make") >>

populatePXEArtifactsDirSteps == << Do("os.RemoveAll(outputPXEArtifactsDir)"), Call("extractIsoImageContents", extractIsoImageContentsSteps), Do("file.Copy(pxeGrubCfgPath)"), Do("os.RemoveAll(pxeGrubCfgPath)"), Do("file.Move(bootx64.efi)"), Do("file.Move(grubx64.efi)"), Do("os.RemoveAll(isoEFIDir)"), Do("file.Copy(isoImagePath)") >>

createIsoImageAndPXEFolderSteps(pxeDirRequested, pxeSupported) == <<Call("createIsoImage", createIsoImageSteps)>> \o (IF pxeDirRequested THEN << Check("verifyDracutPXESupport", pxeSupported), Call("populatePXEArtifactsDir", populatePXEArtifactsDirSteps) >> ELSE <<>>)

createLiveOSIsoImageSteps(inputSavedConfigsExist, pxeSupported, pxeDirRequested) == << Do("micIsoConfigToIsoMakerConfig"), Call("prepareArtifactsFromFullImage", prepareArtifactsFromFullImageSteps(inputSavedConfigsExist, pxeSupported)), Call("createIsoImageAndPXEFolder", createIsoImageAndPXEFolderSteps(pxeDirRequested, pxeSupported)) >>

createImageFromUnchangedOSSteps(pxeSupported, pxeDirRequested) == << Do("micIsoConfigToIsoMakerConfig"), Call("updateSavedConfigs", updateSavedConfigsSteps), Call("updateGrubCfg", updateGrubCfgSteps(pxeSupported)), Call("createIsoImageAndPXEFolder", createIsoImageAndPXEFolderSteps(pxeDirRequested, pxeSupported)) >>

createIsoBuilderFromIsoImageSteps == << Do("os.MkdirAll(isoBuildDir)"), Register("isoBuildDir"), Do("os.MkdirTemp(expanded-input-iso)"), Register("isoExpansionFolder"), Call("extractIsoImageContents", extractIsoImageContentsSteps), Do("file.EnumerateDirFiles(isoExpansionFolder)") >>

getDiskSizeEstimateInMBsSteps == << Do("du -s"), Do("parse the du output") >>

createWriteableImageFromSquashfsSteps == << Acquire("os.MkdirTemp(tmp-squashfs-mount)", <<"squashfs mount directory">>), Defer(<<"squashfs mount directory">>), Acquire("safeloopback.NewLoopback(squashfs)", <<"squashfs loop device">>), Defer(<<"squashfs loop device">>), Acquire("safemount.NewMount(squashfs)", <<"squashfs mount">>), Defer(<<"squashfs mount">>), Call("getDiskSizeEstimateInMBs", getDiskSizeEstimateInMBsSteps), Do("createNewImage"), Release("isoImageMount.CleanClose(squashfs)", "squashfs mount"), Release("squashfsLoopDevice.CleanClose", "squashfs loop device") >>

(* --------------------- the operations and their cleanup --------------- *)

\* the directories whose removal may fail
RemovableDirs == { "isoBuildDir", "isoExpansionFolder" }

\* the loop of cleanUp from index i down: every directory is removed, and
\* every failure is wrapped into the error
RECURSIVE cleanUpFrom(_, _, _, _)
cleanUpFrom(cleanupDirs, i, rmFail, done) ==
    IF i = 0 THEN done
    ELSE cleanUpFrom(cleanupDirs, i - 1, rmFail,
                     [attempted |-> Append(done.attempted, cleanupDirs[i]),
                      err |-> IF cleanupDirs[i] \in rmFail
                              THEN done.err \o <<Cause("remove", cleanupDirs[i])>>
                              ELSE done.err])

\* LiveOSIsoBuilder.cleanUp
cleanUp(cleanupDirs, rmFail) == cleanUpFrom(cleanupDirs, Len(cleanupDirs), rmFail, [attempted |-> <<>>, err |-> <<>>])

MutMergeCleanupErrorReplaces(err, cleanupErr) == IF cleanupErr # <<>> THEN cleanupErr ELSE err

\* the deferred functions of createLiveOSIsoImage and of
\* createIsoBuilderFromIsoImage: a clean-up error is wrapped with the error
\* there was, or returned alone when there was none
MergeCleanupError(err, cleanupErr) == err \o cleanupErr

RemoveEvents(dirs) == [i \in 1..Len(dirs) |-> Event("remove", dirs[i])]

\* what an operation did
OpResult(op, fail, st, cleanup, cleaned, rmFail, inputs) ==
    [ op |-> op, fail |-> fail, rmFail |-> rmFail, inputs |-> inputs,
      trace |-> st.trace \o RemoveEvents(cleanup.attempted),
      held |-> st.held, stepErr |-> st.err,
      err |-> MergeCleanupError(st.err, cleanup.err),
      cleanupDirs |-> st.cleanupDirs, cleaned |-> cleaned,
      attempted |-> cleanup.attempted, cleanupErr |-> cleanup.err ]

NoCleanup == [attempted |-> <<>>, err |-> <<>>]

\* the deferred os.RemoveAll(isoBuildDir) of createLiveOSIsoImage
removeIsoBuildDir(rmFail) == [attempted |-> <<"isoBuildDir">>, err |-> IF "isoBuildDir" \in rmFail THEN <<Cause("remove", "isoBuildDir")>> ELSE <<>>]

\* createLiveOSIsoImage: the body, then the deferred removal of isoBuildDir
createLiveOSIsoImageOp(inputSavedConfigsExist, pxeSupported, pxeDirRequested, fail, rmFail) ==
    LET st == Exec(createLiveOSIsoImageSteps(inputSavedConfigsExist, pxeSupported, pxeDirRequested), fail)
    IN OpResult("createLiveOSIsoImage", fail, st, removeIsoBuildDir(rmFail), TRUE, rmFail,
                <<inputSavedConfigsExist, pxeSupported, pxeDirRequested>>)

\* createIsoBuilderFromIsoImage: the body, then cleanUp when it failed
createIsoBuilderFromIsoImageOp(fail, rmFail) ==
    LET st == Exec(createIsoBuilderFromIsoImageSteps, fail)
    IN IF st.err # <<>>
       THEN OpResult("createIsoBuilderFromIsoImage", fail, st, cleanUp(st.cleanupDirs, rmFail), TRUE, rmFail, <<>>)
       ELSE OpResult("createIsoBuilderFromIsoImage", fail, st, NoCleanup, FALSE, {}, <<>>)

\* the operations on the builder createIsoBuilderFromIsoImage returned: the
\* directories it registered stay registered
OnBuilder(op, fail, st, inputs) == [OpResult(op, fail, st, NoCleanup, FALSE, {}, inputs) EXCEPT !.cleanupDirs = ops.cleanupDirs]

StepInit ==
    /\ ops = NoOp
    /\ iso = Nil /\ isoBuilder = Nil /\ last = NoRun /\ runs = 0
    /\ grub = NoGrub /\ scan = NoScan
    /\ disk = NoDisk /\ fsys = NoFsys

StepCreateLiveOSIsoImage ==
    /\ ops.op = "none"
    /\ \E inputSavedConfigsExist \in BOOLEAN, pxeSupported \in BOOLEAN, pxeDirRequested \in BOOLEAN,
          rmFail \in SUBSET {"isoBuildDir"} :
          \E fail \in {"none"} \union StepNames(createLiveOSIsoImageSteps(inputSavedConfigsExist, pxeSupported, pxeDirRequested)) :
             ops' = createLiveOSIsoImageOp(inputSavedConfigsExist, pxeSupported, pxeDirRequested, fail, rmFail)
    /\ UNCHANGED <<lineageVars, grub, scan, disk, fsys>>

StepCreateIsoBuilderFromIsoImage ==
    /\ ops.op = "none"
    /\ \E fail \in {"none"} \union StepNames(createIsoBuilderFromIsoImageSteps), rmFail \in SUBSET RemovableDirs :
          ops' = createIsoBuilderFromIsoImageOp(fail, rmFail)
    /\ UNCHANGED <<lineageVars, grub, scan, disk, fsys>>

\* a builder that createIsoBuilderFromIsoImage returned without error
HasBuilder == ops.op = "createIsoBuilderFromIsoImage" /\ ops.err = <<>>

StepCreateImageFromUnchangedOS ==
    /\ HasBuilder
    /\ \E pxeSupported \in BOOLEAN, pxeDirRequested \in BOOLEAN :
          \E fail \in {"none"} \union StepNames(createImageFromUnchangedOSSteps(pxeSupported, pxeDirRequested)) :
             ops' = OnBuilder("createImageFromUnchangedOS", fail,
                              Exec(createImageFromUnchangedOSSteps(pxeSupported, pxeDirRequested), fail),
                              <<pxeSupported, pxeDirRequested>>)
    /\ UNCHANGED <<lineageVars, grub, scan, disk, fsys>>

StepCreateWriteableImageFromSquashfs ==
    /\ HasBuilder
    /\ \E fail \in {"none"} \union StepNames(createWriteableImageFromSquashfsSteps) :
          ops' = OnBuilder("createWriteableImageFromSquashfs", fail, Exec(createWriteableImageFromSquashfsSteps, fail), <<>>)
    /\ UNCHANGED <<lineageVars, grub, scan, disk, fsys>>

\* cleanUp on a builder, once its user is done with it
StepCleanUp ==
    /\ ops.op \in {"createIsoBuilderFromIsoImage", "createImageFromUnchangedOS", "createWriteableImageFromSquashfs"}
    /\ ~ops.cleaned
    /\ \E rmFail \in SUBSET RemovableDirs :
          ops' = [OpResult("cleanUp", "none", Started, cleanUp(ops.cleanupDirs, rmFail), TRUE, rmFail, <<>>) EXCEPT !.cleanupDirs = ops.cleanupDirs]
    /\ UNCHANGED <<lineageVars, grub, scan, disk, fsys>>

StepNext == StepCreateLiveOSIsoImage \/ StepCreateIsoBuilderFromIsoImage \/ StepCreateImageFromUnchangedOS \/ StepCreateWriteableImageFromSquashfs \/ StepCleanUp

StepSpec == StepInit /\ [][StepNext]_vars

(* --------------------------- the classifier --------------------------- *)

\* A path is the sequence of its names, a name the sequence of its pieces
\* (<<"vmlinuz-", "5.15.0">> is vmlinuz-5.15.0); the empty path is "".
Name(text) == <<text>>

Base(path) == path[Len(path)]

Dir(path) == SubSeq(path, 1, Len(path) - 1)

HasPathPrefix(path, prefix) == Len(path) >= Len(prefix) /\ SubSeq(path, 1, Len(prefix)) = prefix

\* strings.TrimPrefix on paths
TrimPathPrefix(path, prefix) == IF HasPathPrefix(path, prefix) THEN SubSeq(path, Len(prefix) + 1, Len(path)) ELSE path

\* strings.Replace(sourcePath, old, new, -1) for a directory that occurs once, as the prefix
ReplacePathPrefix(path, old, new) == IF HasPathPrefix(path, old) THEN new \o TrimPathPrefix(path, old) ELSE path

\* strings.HasPrefix on a name
HasNamePrefix(name, prefix) == name # <<>> /\ Head(name) = prefix

bootx64Binary == Name("bootx64.efi")

grubx64Binary == Name("grubx64.efi")

grubx64NoPrefixBinary == Name("grubx64-noprefix.efi")

isoGrubCfg == Name("grub.cfg")

pxeGrubCfg == Name("grub-pxe.cfg")

liveOSImage == Name("rootfs.img")

initrdImage == Name("initrd.img")

savedConfigsFileName == Name("saved-configs.yaml")

vmLinuzPrefix == "vmlinuz-"

writeableRootfsDir == << Name("build"), Name("tmp"), Name("writeable-rootfs") >>

isoArtifactsDir == << Name("build"), Name("tmp"), Name("artifacts") >>

isoExpansionFolder == << Name("build"), Name("expanded-input-iso-1") >>

\* the pieces of a path from its i-th name on, "/" between the names
RECURSIVE PiecesFrom(_, _)
PiecesFrom(path, i) == IF i > Len(path) THEN <<>> ELSE path[i] \o (IF i < Len(path) THEN <<"/">> ELSE <<>>) \o PiecesFrom(path, i + 1)

\* /boot/initrd\.img.* found anywhere in the path
MatchesInitrd(path) == \E i \in 1..(Len(path) - 1) : path[i] = Name("boot") /\ HasNamePrefix(path[i + 1], "initrd.img")

\* /boot/initramfs-.*\.img.* found anywhere in the path
MatchesInitramfs(path) == \E i \in 1..(Len(path) - 1) : path[i] = Name("boot") /\ LET p == PiecesFrom(path, i + 1) IN p[1] = "initramfs-" /\ \E k \in 2..Len(p) : p[k] = ".img"

\* /boot/efi/boot/grub2/grub\.cfg found anywhere in the path
MatchesBootPartitionGrubCfg(path) == \E i \in 1..(Len(path) - 4) : SubSeq(path, i, i + 3) = <<Name("boot"), Name("efi"), Name("boot"), Name("grub2")>> /\ HasNamePrefix(path[i + 4], "grub.cfg")

MutExcludedOnlyInitrd(sourcePath) == MatchesInitrd(sourcePath)

\* the exclusions of extractBootDirFiles, matched with FindStringIndex
Excluded(sourcePath) == MatchesInitrd(sourcePath) \/ MatchesInitramfs(sourcePath) \/ MatchesBootPartitionGrubCfg(sourcePath)

containsGrubNoPrefix(filePaths) == \E i \in 1..Len(filePaths) : Base(filePaths[i]) = grubx64NoPrefixBinary

\* the artifact table before a scan, with what the scan did to each file
NoArtifacts ==
    [ bootx64EfiPath |-> <<>>, grubx64EfiPath |-> <<>>, isoGrubCfgPath |-> <<>>,
      pxeGrubCfgPath |-> <<>>, savedConfigsFilePath |-> <<>>, vmlinuzPath |-> <<>>,
      initrdImagePath |-> <<>>, squashfsImagePath |-> <<>>,
      kernelVersion |-> "", dracutPackageInfo |-> Nil,
      additionalFiles |-> <<>>, copied |-> {}, consumed |-> {}, err |-> "" ]

\* the artifact table of a new builder: the saved-configuration path is set
NewBuilderArtifacts == [NoArtifacts EXCEPT !.savedConfigsFilePath = isoArtifactsDir \o <<Name("azl-image-customizer"), savedConfigsFileName>>]

\* additionalFiles[key] = value, on the map held as a sequence of pairs
SetFile(map, key, value) == SelectSeq(map, LAMBDA kv : kv[1] # key) \o << <<key, value>> >>

\* the artifact slot a name goes to in extractBootDirFiles ("" for none)
BootSlot(name) ==
    IF HasNamePrefix(name, vmLinuzPrefix) THEN "vmlinuzPath"
    ELSE IF name = bootx64Binary THEN "bootx64EfiPath"
    ELSE IF name \in {grubx64Binary, grubx64NoPrefixBinary} THEN "grubx64EfiPath"
    ELSE IF name = isoGrubCfg THEN "isoGrubCfgPath"
    ELSE ""

\* where extractBootDirFiles copies a file to
BootTargetPath(sourcePath, usingGrubNoPrefix) ==
    LET targetPath == ReplacePathPrefix(sourcePath, writeableRootfsDir, isoArtifactsDir)
        name == Base(targetPath)
    IN IF HasNamePrefix(name, vmLinuzPrefix) THEN Append(Dir(targetPath), Name("vmlinuz"))
       ELSE IF name = isoGrubCfg /\ usingGrubNoPrefix THEN isoArtifactsDir \o <<Name("EFI"), Name("BOOT"), isoGrubCfg>>
       ELSE targetPath

MutBootFileKeepsAdditional(a, sourcePath, usingGrubNoPrefix, copyFails) ==
    IF Excluded(sourcePath) THEN a
    ELSE LET targetPath == BootTargetPath(sourcePath, usingGrubNoPrefix)
             slot == BootSlot(Base(sourcePath))
             a1 == IF slot = "" THEN a
                   ELSE [a EXCEPT ![slot] = targetPath, !.consumed = @ \union {sourcePath},
                                  !.pxeGrubCfgPath = IF slot = "isoGrubCfgPath" THEN Append(Dir(targetPath), pxeGrubCfg) ELSE @]
         IN [a1 EXCEPT !.copied = @ \union {sourcePath},
                       !.additionalFiles = SetFile(@, targetPath, TrimPathPrefix(targetPath, isoArtifactsDir))]

\* one iteration of the loop of extractBootDirFiles
BootFile(a, sourcePath, usingGrubNoPrefix, copyFails) ==
    IF Excluded(sourcePath) THEN a
    ELSE LET targetPath == BootTargetPath(sourcePath, usingGrubNoPrefix)
             slot == BootSlot(Base(sourcePath))
             a1 == IF slot = "" THEN a
                   ELSE [a EXCEPT ![slot] = targetPath, !.consumed = @ \union {sourcePath},
                                  !.pxeGrubCfgPath = IF slot = "isoGrubCfgPath" THEN Append(Dir(targetPath), pxeGrubCfg) ELSE @]
         IN IF copyFails THEN [a1 EXCEPT !.err = "failed to extract files from under the boot folder"]
            ELSE IF slot # "" THEN [a1 EXCEPT !.copied = @ \union {sourcePath}]
            ELSE [a1 EXCEPT !.copied = @ \union {sourcePath},
                            !.additionalFiles = SetFile(@, targetPath, TrimPathPrefix(targetPath, isoArtifactsDir))]

RECURSIVE BootFiles(_, _, _, _)
BootFiles(a, filePaths, usingGrubNoPrefix, fail) ==
    IF filePaths = <<>> \/ a.err # "" THEN a
    ELSE BootFiles(BootFile(a, Head(filePaths), usingGrubNoPrefix, fail = "copy" /\ a.copied = {}), Tail(filePaths), usingGrubNoPrefix, fail)

ErrNoShim == "failed to find the boot efi file (bootx64.efi): this file is provided by the (shim) package"

ErrNoGrub == "failed to find the grub efi file (grubx64.efi or grubx64-noprefix.efi): this file is provided by either the (grub2-efi-binary) or the (grub2-efi-binary-noprefix) package"

\* extractBootDirFiles over the files file.EnumerateDirFiles found under /boot
extractBootDirFiles(bootFolderFilePaths, fail) ==
    LET a == BootFiles(NewBuilderArtifacts, bootFolderFilePaths, containsGrubNoPrefix(bootFolderFilePaths), fail)
    IN IF a.err # "" THEN a
       ELSE IF a.bootx64EfiPath = <<>> THEN [a EXCEPT !.err = ErrNoShim]
       ELSE IF a.grubx64EfiPath = <<>> THEN [a EXCEPT !.err = ErrNoGrub]
       ELSE a

\* the artifact slot a name goes to in the scan of createIsoBuilderFromIsoImage
IsoSlot(name) ==
    IF HasNamePrefix(name, vmLinuzPrefix) THEN "vmlinuzPath"
    ELSE IF name = bootx64Binary THEN "bootx64EfiPath"
    ELSE IF name = grubx64Binary THEN "grubx64EfiPath"
    ELSE IF name = isoGrubCfg THEN "isoGrubCfgPath"
    ELSE IF name = liveOSImage THEN "squashfsImagePath"
    ELSE IF name = initrdImage THEN "initrdImagePath"
    ELSE IF name = savedConfigsFileName THEN "savedConfigsFilePath"
    ELSE ""

\* one iteration of the scan loop of createIsoBuilderFromIsoImage
IsoFile(a, isoFile) ==
    LET slot == IsoSlot(Base(isoFile))
    IN IF slot = "" THEN [a EXCEPT !.additionalFiles = SetFile(@, isoFile, TrimPathPrefix(isoFile, isoExpansionFolder))]
       ELSE [a EXCEPT ![slot] = isoFile, !.consumed = @ \union {isoFile},
                      !.pxeGrubCfgPath = IF slot = "isoGrubCfgPath" THEN Append(Dir(isoFile), pxeGrubCfg) ELSE @]

RECURSIVE IsoFiles(_, _)
IsoFiles(a, isoFiles) == IF isoFiles = <<>> THEN a ELSE IsoFiles(IsoFile(a, Head(isoFiles)), Tail(isoFiles))

\* the scan of createIsoBuilderFromIsoImage over the files of the expanded ISO
ScanIsoFiles(isoFiles) == IsoFiles(NewBuilderArtifacts, isoFiles)

\* a file to copy to the ISO media
FileToCopy(src, dest) == [Src |-> src, Dest |-> dest]

MutCreateIsoImageFilesNoSavedConfigs(a, additionalIsoFiles, savedConfigsExist, pxeGrubCfgExists) ==
    additionalIsoFiles
    \o <<FileToCopy(a.squashfsImagePath, <<Name("liveos"), liveOSImage>>)>>
    \o [i \in 1..Len(a.additionalFiles) |-> FileToCopy(a.additionalFiles[i][1], a.additionalFiles[i][2])]
    \o (IF pxeGrubCfgExists THEN <<FileToCopy(a.pxeGrubCfgPath, <<Name("boot"), Name("grub2"), pxeGrubCfg>>)>> ELSE <<>>)

\* the file list createIsoImage hands to the ISO writer: the files of the
\* user's configuration, the squashfs image, the additional files (a map,
\* listed here in the order they were added), the saved-configuration file
\* and the PXE grub.cfg when they exist
createIsoImageFiles(a, additionalIsoFiles, savedConfigsExist, pxeGrubCfgExists) ==
    additionalIsoFiles
    \o <<FileToCopy(a.squashfsImagePath, <<Name("liveos"), liveOSImage>>)>>
    \o [i \in 1..Len(a.additionalFiles) |-> FileToCopy(a.additionalFiles[i][1], a.additionalFiles[i][2])]
    \o (IF savedConfigsExist THEN <<FileToCopy(a.savedConfigsFilePath, <<Name("azl-image-customizer"), savedConfigsFileName>>)>> ELSE <<>>)
    \o (IF pxeGrubCfgExists THEN <<FileToCopy(a.pxeGrubCfgPath, <<Name("boot"), Name("grub2"), pxeGrubCfg>>)>> ELSE <<>>)

\* the files a full image may have under /boot, in the order of the enumeration
BootTree == << <<Name("boot"), Name("README")>>,
               <<Name("boot"), Name("efi"), Name("EFI"), Name("BOOT"), bootx64Binary>>,
               <<Name("boot"), Name("efi"), Name("EFI"), Name("BOOT"), grubx64Binary>>,
               <<Name("boot"), Name("efi"), Name("EFI"), Name("BOOT"), grubx64NoPrefixBinary>>,
               <<Name("boot"), Name("efi"), Name("boot"), Name("grub2"), isoGrubCfg>>,
               <<Name("boot"), Name("grub2"), isoGrubCfg>>,
               <<Name("boot"), <<"initramfs-", "5.15.0", ".img">>>>,
               <<Name("boot"), <<"initrd.img", "-5.15.0">>>>,
               <<Name("boot"), <<"vmlinuz-", "5.15.0">>>> >>

\* the files an input ISO may hold
IsoTree == << <<Name("README")>>,
              <<Name("azl-image-customizer"), savedConfigsFileName>>,
              <<Name("boot"), Name("grub2"), isoGrubCfg>>,
              <<Name("boot"), Name("grub2"), pxeGrubCfg>>,
              <<Name("boot"), initrdImage>>,
              <<Name("boot"), Name("vmlinuz")>>,
              <<Name("efi"), Name("boot"), bootx64Binary>>,
              <<Name("efi"), Name("boot"), grubx64Binary>>,
              <<Name("liveos"), liveOSImage>> >>

\* the files of a tree with the chosen indexes, under a root
FilesOf(tree, chosen, root) == LET rel == SelectSeq([i \in 1..Len(tree) |-> IF i \in chosen THEN tree[i] ELSE <<>>], LAMBDA p : p # <<>>) IN [i \in 1..Len(rel) |-> root \o rel[i]]

ScanFailures == { "none", "copy" }

\* the files of a builder's directories that are read back later: the
\* saved-configuration file at savedConfigsFilePath (Nil when absent) and
\* whether a file exists at pxeGrubCfgPath
Store(savedConfigsFile, pxeGrubCfgExists) == [ savedConfigsFile |-> savedConfigsFile, pxeGrubCfgExists |-> pxeGrubCfgExists ]

ScanResult(op, root, files, fail, a, store, input) == [ op |-> op, root |-> root, files |-> files, fail |-> fail, a |-> a, store |-> store, input |-> input, scanned |-> [ a |-> a, store |-> store ], isoWriter |-> Nil ]

\* the saved-configuration file of an input ISO that has one
InputSavedConfigs == SavedConfigs(<<"a">>, "", "", {[version |-> MinPxeDracutVersion]})

\* the files of the user's configuration (micIsoConfigToIsoMakerConfig)
AdditionalIsoFilesInputs == { <<>>, <<FileToCopy(<<Name("config"), Name("README")>>, <<Name("README")>>)>> }

NewKernelArgsInputs == { <<>>, <<"b">> }

\* the loop of createLiveOSIsoImage over the additional files of the input
\* ISO: a file is taken when no additional file of the new ISO has its destination
RECURSIVE MergeInputAdditionalFiles(_, _)
MergeInputAdditionalFiles(additionalFiles, inputAdditionalFiles) ==
    IF inputAdditionalFiles = <<>> THEN additionalFiles
    ELSE LET inputSourceFile == Head(inputAdditionalFiles)[1]
             inputTargetFile == Head(inputAdditionalFiles)[2]
             found == \E i \in 1..Len(additionalFiles) : additionalFiles[i][2] = inputTargetFile
         IN MergeInputAdditionalFiles(IF found THEN additionalFiles ELSE SetFile(additionalFiles, inputSourceFile, inputTargetFile), Tail(inputAdditionalFiles))

\* what a build leaves: the artifact table, the files read back, the
\* configuration updateSavedConfigs returned and the ISO writer's inputs
Built(a, store, updatedSavedConfigs, additionalIsoFiles, newKernelArgs) ==
    [ a |-> a, store |-> store,
      isoWriter |-> {[ files |-> createIsoImageFiles(a, additionalIsoFiles, store.savedConfigsFile # Nil, store.pxeGrubCfgExists),
                       initrd |-> a.initrdImagePath, grubCfg |-> a.isoGrubCfgPath,
                       updatedSavedConfigs |-> updatedSavedConfigs, newKernelArgs |-> newKernelArgs ]} ]

\* createLiveOSIsoImage after the scan of /boot, when every step succeeds:
\* the saved-configuration file of the input ISO is copied and merged, the
\* grub.cfg files are written, the squashfs and initrd images are generated,
\* the additional files of the input ISO are merged, createIsoImage is called
createLiveOSIsoImageArtifacts(a, input, additionalIsoFiles, newKernelArgs, rootfsInfo) ==
    LET inputSavedConfigsFile == IF input = Nil THEN Nil ELSE Deref(input).store.savedConfigsFile
        upd == updateSavedConfigs(inputSavedConfigsFile, newKernelArgs, "", "", rootfsInfo, "none")
        a1 == [a EXCEPT !.kernelVersion = "5.15.0", !.dracutPackageInfo = rootfsInfo,
                        !.squashfsImagePath = Append(isoArtifactsDir, liveOSImage),
                        !.initrdImagePath = Append(isoArtifactsDir, initrdImage)]
        a2 == IF input = Nil THEN a1
              ELSE [a1 EXCEPT !.additionalFiles = MergeInputAdditionalFiles(@, Deref(input).a.additionalFiles)]
    IN Built(a2, Store(upd.file, verifyDracutPXESupport(Deref(upd.cfg).DracutPackageInfo) = ""), Deref(upd.cfg), additionalIsoFiles, newKernelArgs)

MutUnchangedOSRegenerates(a, store, additionalIsoFiles, newKernelArgs) == createLiveOSIsoImageArtifacts(a, Nil, additionalIsoFiles, newKernelArgs, Nil)

\* createImageFromUnchangedOS on the builder of the input ISO, when every
\* step succeeds: the saved configuration is merged in place, the grub.cfg
\* files are written, createIsoImage is called
createImageFromUnchangedOSArtifacts(a, store, additionalIsoFiles, newKernelArgs) ==
    LET upd == updateSavedConfigs(store.savedConfigsFile, newKernelArgs, "", "", Nil, "none")
        a1 == [a EXCEPT !.dracutPackageInfo = Deref(upd.cfg).DracutPackageInfo]
    IN Built(a1, Store(upd.file, store.pxeGrubCfgExists \/ verifyDracutPXESupport(Deref(upd.cfg).DracutPackageInfo) = ""), Deref(upd.cfg), additionalIsoFiles, newKernelArgs)

\* the /boot trees of the full images built on top of an input ISO: those
\* the scan of /boot accepts and the build can go on with (a kernel, a
\* grub.cfg), none of the initrd images the scan leaves out
AcceptedBootTrees ==
    { chosen \in SUBSET (1..Len(BootTree)) :
        LET files == FilesOf(BootTree, chosen, writeableRootfsDir)
            a == extractBootDirFiles(files, "none")
        IN /\ a.err = "" /\ a.isoGrubCfgPath # <<>> /\ a.vmlinuzPath # <<>>
           /\ \A i \in 1..Len(files) : ~Excluded(files[i]) }

ScanInit ==
    /\ scan = NoScan
    /\ iso = Nil /\ isoBuilder = Nil /\ last = NoRun /\ runs = 0
    /\ grub = NoGrub /\ ops = NoOp
    /\ disk = NoDisk /\ fsys = NoFsys

\* extractBootDirFiles in prepareLiveOSDir, with no input ISO or with the
\* builder createIsoBuilderFromIsoImage returned for the input ISO
ScanBootDir ==
    /\ \/ /\ scan.op = "none"
          /\ \E chosen \in SUBSET (1..Len(BootTree)), fail \in ScanFailures :
                LET files == FilesOf(BootTree, chosen, writeableRootfsDir)
                IN scan' = ScanResult("extractBootDirFiles", writeableRootfsDir, files, fail, extractBootDirFiles(files, fail), Store(Nil, FALSE), Nil)
       \/ /\ scan.op = "createIsoBuilderFromIsoImage"
          /\ scan.isoWriter = Nil
          /\ \E chosen \in AcceptedBootTrees :
                LET files == FilesOf(BootTree, chosen, writeableRootfsDir)
                IN scan' = ScanResult("extractBootDirFiles", writeableRootfsDir, files, "none", extractBootDirFiles(files, "none"), Store(Nil, FALSE), {[ a |-> scan.a, store |-> scan.store, files |-> scan.files ]})
    /\ UNCHANGED <<lineageVars, grub, ops, disk, fsys>>

\* the scan of createIsoBuilderFromIsoImage
ScanInputIso ==
    /\ scan.op = "none"
    /\ \E chosen \in SUBSET (1..Len(IsoTree)) :
          LET files == FilesOf(IsoTree, chosen, isoExpansionFolder)
              a == ScanIsoFiles(files)
          IN scan' = ScanResult("createIsoBuilderFromIsoImage", isoExpansionFolder, files, "none", a,
                                Store(IF \E i \in 1..Len(files) : Base(files[i]) = savedConfigsFileName THEN {InputSavedConfigs} ELSE Nil,
                                      \E i \in 1..Len(files) : files[i] = a.pxeGrubCfgPath), Nil)
    /\ UNCHANGED <<lineageVars, grub, ops, disk, fsys>>

\* the rest of the build up to the call of the ISO writer in createIsoImage,
\* when every step between the scan and it succeeds
AssembleIso ==
    /\ scan.op # "none"
    /\ scan.a.err = ""
    /\ scan.isoWriter = Nil
    /\ scan.a.isoGrubCfgPath # <<>>   \* updateGrubCfg reads the file
    /\ \E additionalIsoFiles \in AdditionalIsoFilesInputs, newKernelArgs \in NewKernelArgsInputs, rootfsInfo \in RootfsDracutInfos :
          LET built == IF scan.op = "extractBootDirFiles"
                       THEN createLiveOSIsoImageArtifacts(scan.a, scan.input, additionalIsoFiles, newKernelArgs, rootfsInfo)
                       ELSE createImageFromUnchangedOSArtifacts(scan.a, scan.store, additionalIsoFiles, newKernelArgs)
          IN scan' = [scan EXCEPT !.a = built.a, !.store = built.store, !.isoWriter = built.isoWriter]
    /\ UNCHANGED <<lineageVars, grub, ops, disk, fsys>>

ScanNext == ScanBootDir \/ ScanInputIso \/ AssembleIso

ScanSpec == ScanInit /\ [][ScanNext]_vars

(* ---------------------- the writeable-image disk size ---------------------- *)

KiB == 1024

MiB == 1048576

\* the safety factor 1.5, as numerator and denominator
expansionSafetyFactor == <<3, 2>>

\* the largest size 'du -s' reports, in KiB
MaxSizeInKbs == 8192

DuFailures == { "none", "du", "parse" }

\* getSizeOnDiskInBytes: the count 'du -s' printed, times KiB
getSizeOnDiskInBytes(sizeInKbs, fail) ==
    IF fail = "du" THEN [size |-> 0, err |-> "failed to find the size of the specified folder using 'du'"]
    ELSE IF fail = "parse" THEN [size |-> 0, err |-> "failed to parse 'du -s' output"]
    ELSE [size |-> sizeInKbs * KiB, err |-> ""]

\* uint64(float64(x) * safetyFactor): the conversion drops the fraction
TruncatedProduct(x, safetyFactor) == (x * safetyFactor[1]) \div safetyFactor[2]

getDiskSizeEstimateInMBs(sizeInKbs, safetyFactor, fail) ==
    LET measured == getSizeOnDiskInBytes(sizeInKbs, fail)
        sizeInMBs == measured.size \div MiB + 1
    IN IF measured.err # "" THEN [size |-> 0, err |-> "failed to get folder size on disk while estimating total disk size"]
       ELSE [size |-> TruncatedProduct(sizeInMBs, safetyFactor), err |-> ""]

\* the disk createWriteableImageFromSquashfs describes to createNewImage:
\* the ESP from 1 MiB to 9 MiB and the root partition from 9 MiB on
DiskLayout(sizeInKbs, fail) ==
    LET estimate == getDiskSizeEstimateInMBs(sizeInKbs, expansionSafetyFactor, fail)
    IN [ op |-> "createWriteableImageFromSquashfs", sizeInKbs |-> sizeInKbs, fail |-> fail,
         sizeInBytes |-> getSizeOnDiskInBytes(sizeInKbs, fail).size,
         safeDiskSizeMB |-> estimate.size,
         err |-> IF estimate.err # "" THEN "failed to calculate the disk size" ELSE "",
         diskConfig |-> IF estimate.err # "" THEN Nil
                        ELSE {[ maxDiskSizeMB |-> estimate.size * MiB, bootPartitionStart |-> 1 * MiB,
                                bootPartitionEnd |-> 9 * MiB, rootfsStart |-> 9 * MiB ]} ]

DiskInit ==
    /\ disk = NoDisk
    /\ iso = Nil /\ isoBuilder = Nil /\ last = NoRun /\ runs = 0
    /\ grub = NoGrub /\ ops = NoOp /\ scan = NoScan /\ fsys = NoFsys

\* createWriteableImageFromSquashfs up to the call of createNewImage
DiskCreateWriteableImageFromSquashfs ==
    /\ disk.op = "none"
    /\ \E sizeInKbs \in 0..MaxSizeInKbs, fail \in DuFailures : disk' = DiskLayout(sizeInKbs, fail)
    /\ UNCHANGED <<lineageVars, grub, ops, scan, fsys>>

DiskNext == DiskCreateWriteableImageFromSquashfs

DiskSpec == DiskInit /\ [][DiskNext]_vars

(* ------------------------- directories and files ------------------------- *)

\* A directory tree is the set of its files, each a path (relative to the
\* root of the tree) with a content; no two files of a tree share a path.
File(path, content) == [ path |-> path, content |-> content ]

Exists(tree, path) == \E f \in tree : f.path = path

ContentOf(tree, path) == (CHOOSE f \in tree : f.path = path).content

\* file.Write, and the write of a copy: the file at the path is replaced
WriteFile(tree, path, content) == { f \in tree : f.path # path } \union { File(path, content) }

\* os.RemoveAll: the path and everything under it; no error when absent
RemoveAll(tree, path) == { f \in tree : ~HasPathPrefix(f.path, path) }

\* os.Remove of a file: fails when the file does not exist
Remove(tree, path) ==
    IF Exists(tree, path) THEN [ tree |-> { f \in tree : f.path # path }, err |-> "" ]
    ELSE [ tree |-> tree, err |-> "no such file or directory" ]

MutCopyKeepsTarget(tree, src, dst) == [ tree |-> tree, err |-> "" ]

\* file.Copy inside a tree: fails when the source does not exist
Copy(tree, src, dst) ==
    IF Exists(tree, src) THEN [ tree |-> WriteFile(tree, dst, ContentOf(tree, src)), err |-> "" ]
    ELSE [ tree |-> tree, err |-> "no such file or directory" ]

\* file.Move inside a tree
Move(tree, src, dst) ==
    IF Exists(tree, src) THEN [ tree |-> WriteFile({ f \in tree : f.path # src }, dst, ContentOf(tree, src)), err |-> "" ]
    ELSE [ tree |-> tree, err |-> "no such file or directory" ]

fstabFile == << Name("etc"), Name("fstab") >>

targetConfigFile == << Name("etc"), Name("dracut.conf.d"), Name("20-live-cd.conf") >>

dracutConfig == "add_dracutmodules+=dmsquash-live livenet; add_drivers+=overlay; hostonly=no"

\* prepareRootfsForDracut on the tree of the writeable root directory
prepareRootfsForDracut(tree, fail) ==
    LET removed == Remove(tree, fstabFile)
    IN IF removed.err # "" THEN [ tree |-> tree, err |-> "failed to delete fstab" ]
       ELSE IF fail = "write" THEN [ tree |-> removed.tree, err |-> "failed to create /etc/dracut.conf.d/20-live-cd.conf" ]
       ELSE [ tree |-> WriteFile(removed.tree, targetConfigFile, dracutConfig), err |-> "" ]

grubCfgDir == << Name("boot"), Name("grub2") >>

isoBootloadersDir == << Name("efi"), Name("boot") >>

\* populatePXEArtifactsDir: the tree of the PXE artifacts directory after the
\* call, given the tree before it, the files on the ISO media and the ISO itself
populatePXEArtifactsDir(tree, isoMedia, isoImage, outputImageBase, fail) ==
    LET Stopped(t, msg) == [ tree |-> t, err |-> msg ]
        cleaned == RemoveAll(tree, <<>>)
        extracted == cleaned \union isoMedia
        grubCopied == Copy(extracted, Append(grubCfgDir, pxeGrubCfg), Append(grubCfgDir, isoGrubCfg))
        pxeRemoved == RemoveAll(grubCopied.tree, Append(grubCfgDir, pxeGrubCfg))
        shimMoved == Move(pxeRemoved, Append(isoBootloadersDir, bootx64Binary), <<bootx64Binary>>)
        grubMoved == Move(shimMoved.tree, Append(isoBootloadersDir, grubx64Binary), <<grubx64Binary>>)
        efiRemoved == RemoveAll(grubMoved.tree, <<Name("efi")>>)
        artifactsIsoImagePath == <<getImageNameFromImageBaseName(outputImageBase).name>>
    IN IF fail = "removeAll" THEN Stopped(tree, "failed to remove the PXE artifacts directory")
       ELSE IF fail = "extract" THEN Stopped(cleaned, "failed to extract the iso image contents")
       ELSE IF grubCopied.err # "" THEN Stopped(extracted, "failed to copy grub-pxe.cfg to grub.cfg while populating the PXE artifacts directory")
       ELSE IF shimMoved.err # "" THEN Stopped(pxeRemoved, "failed to move boot loader file")
       ELSE IF grubMoved.err # "" THEN Stopped(shimMoved.tree, "failed to move boot loader file")
       ELSE IF fail = "copyIso" THEN Stopped(efiRemoved, "failed to copy the iso while populating the PXE artifacts directory")
       ELSE [ tree |-> WriteFile(efiRemoved, artifactsIsoImagePath, isoImage), err |-> "" ]

\* the largest number of calls of prepareRootfsForDracut on one directory
MaxApplications == 2

\* what a writeable root directory may hold before the first call
RootfsFiles == { File(fstabFile, "fstab"), File(targetConfigFile, "old dracut configuration"), File(<<Name("etc"), Name("hostname")>>, "hostname") }

\* what the PXE artifacts directory may hold before the call
StalePxeFiles == { File(<<bootx64Binary>>, "stale"), File(Append(grubCfgDir, isoGrubCfg), "stale"), File(<<Name("old"), Name("notes.txt")>>, "stale") }

\* the files every LiveOS ISO has, and those it may have
IsoMediaFiles == { File(Append(grubCfgDir, isoGrubCfg), "iso grub.cfg"), File(<<Name("liveos"), liveOSImage>>, "squashfs") }

OptionalIsoMediaFiles == { File(Append(grubCfgDir, pxeGrubCfg), "pxe grub.cfg"), File(Append(isoBootloadersDir, bootx64Binary), "shim"), File(Append(isoBootloadersDir, grubx64Binary), "grub"), File(<<Name("efi"), Name("other.efi")>>, "other") }

PxeFailures == { "none", "removeAll", "extract", "copyIso" }

RootfsFailures == { "none", "write" }

FsysInit ==
    /\ fsys = NoFsys
    /\ iso = Nil /\ isoBuilder = Nil /\ last = NoRun /\ runs = 0
    /\ grub = NoGrub /\ ops = NoOp /\ scan = NoScan /\ disk = NoDisk

\* prepareRootfsForDracut, on a directory in any state or on the directory
\* an earlier call left
FsysPrepareRootfsForDracut ==
    /\ \E fail \in RootfsFailures :
          \/ /\ fsys.op = "none"
             /\ \E before \in SUBSET RootfsFiles :
                   LET r == prepareRootfsForDracut(before, fail)
                   IN fsys' = [ op |-> "prepareRootfsForDracut", before |-> before, fail |-> fail, tree |-> r.tree, err |-> r.err, applications |-> 1, first |-> before ]
          \/ /\ fsys.op = "prepareRootfsForDracut"
             /\ fsys.applications < MaxApplications
             /\ LET r == prepareRootfsForDracut(fsys.tree, fail)
                IN fsys' = [ fsys EXCEPT !.before = fsys.tree, !.fail = fail, !.tree = r.tree, !.err = r.err, !.applications = @ + 1 ]
    /\ UNCHANGED <<lineageVars, grub, ops, scan, disk>>

FsysPopulatePXEArtifactsDir ==
    /\ fsys.op = "none"
    /\ \E before \in SUBSET StalePxeFiles, optional \in SUBSET OptionalIsoMediaFiles, outputImageBase \in OutputImageBases, fail \in PxeFailures :
          LET r == populatePXEArtifactsDir(before, IsoMediaFiles \union optional, "iso image", outputImageBase, fail)
          IN fsys' = [ op |-> "populatePXEArtifactsDir", before |-> before, fail |-> fail, tree |-> r.tree, err |-> r.err, outputImageBase |-> outputImageBase, isoMedia |-> IsoMediaFiles \union optional ]
    /\ UNCHANGED <<lineageVars, grub, ops, scan, disk>>

FsysNext == FsysPrepareRootfsForDracut \/ FsysPopulatePXEArtifactsDir

FsysSpec == FsysInit /\ [][FsysNext]_vars

(* ----------------------------- properties ------------------------------ *)

\* the merged configuration updateSavedConfigs returned in the last run
Merged == Deref(last.updated)

\* the configuration loaded from the saved file in the last run
Saved == Deref(last.prevFile)

HasMerged == last.updated # Nil

HasSaved == last.prevFile # Nil

NewSavedConfigs ==
    SavedConfigs(last.newKernelArgs, last.newBaseUrl, last.newFileUrl, last.newInfo)

\* C1 (as claimed): whatever the saved file held (or with no saved file) and
\* whatever URLs the run gives, the merged configuration has at most one of
\* IsoImageBaseUrl and IsoImageFileUrl non-empty.
C1_AtMostOneUrl ==
    HasMerged => ~(Merged.IsoImageBaseUrl # "" /\ Merged.IsoImageFileUrl # "")

\* C2: when the run gives exactly one non-empty URL, the merged configuration
\* holds it in its field and the other field is empty, whatever was saved.
C2_SingleNewUrlWins ==
    HasMerged =>
      /\ (last.newBaseUrl # "" /\ last.newFileUrl = "") =>
            (Merged.IsoImageBaseUrl = last.newBaseUrl /\ Merged.IsoImageFileUrl = "")
      /\ (last.newFileUrl # "" /\ last.newBaseUrl = "") =>
            (Merged.IsoImageFileUrl = last.newFileUrl /\ Merged.IsoImageBaseUrl = "")

C2_Witness ==
    /\ HasMerged /\ HasSaved
    /\ Saved.IsoImageFileUrl # ""
    /\ last.newBaseUrl # "" /\ last.newFileUrl = ""
    /\ Saved.IsoImageBaseUrl = ""
    /\ Merged.IsoImageBaseUrl = last.newBaseUrl
    /\ Merged.IsoImageFileUrl = ""

\* C3: for non-empty saved and new extra arguments the merged value is
\* trim(saved), one space, trim(new); for saved "a" and new "b" it is "a b".
C3_MergeConcatenation ==
    (HasMerged /\ HasSaved /\ Saved.ExtraCommandLine # <<>> /\ last.newKernelArgs # <<>>) =>
      /\ Merged.ExtraCommandLine =
            TrimSpace(Saved.ExtraCommandLine) \o <<" ">> \o TrimSpace(last.newKernelArgs)
      /\ (Saved.ExtraCommandLine = <<"a">> /\ last.newKernelArgs = <<"b">>) =>
            Merged.ExtraCommandLine = <<"a", " ", "b">>

C3_Witness ==
    /\ HasMerged /\ HasSaved
    /\ Saved.ExtraCommandLine = <<"a">>
    /\ last.newKernelArgs = <<"b">>
    /\ Merged.ExtraCommandLine = <<"a", " ", "b">>

\* C4 (as claimed): the merged extra arguments never start or end with
\* whitespace, for every saved and every new value.
C4_NoSurroundingWhitespace ==
    HasMerged => Merged.ExtraCommandLine = TrimSpace(Merged.ExtraCommandLine)

\* C5: the merged package information is the new run's when that is non-nil
\* and the saved one when it is nil; once saved it never becomes absent.
C5_DracutInfoCarriedForward ==
    HasMerged =>
      /\ last.newInfo # Nil => Merged.DracutPackageInfo = last.newInfo
      /\ (last.newInfo = Nil /\ HasSaved) =>
            Merged.DracutPackageInfo = Saved.DracutPackageInfo
      /\ (last.newInfo = Nil /\ ~HasSaved) => Merged.DracutPackageInfo = Nil
      /\ (HasSaved /\ Saved.DracutPackageInfo # Nil) => Merged.DracutPackageInfo # Nil

C5_Witness ==
    /\ HasMerged /\ HasSaved
    /\ last.op = "createImageFromUnchangedOS"
    /\ last.newInfo = Nil
    /\ Saved.DracutPackageInfo # Nil
    /\ Merged.DracutPackageInfo = Saved.DracutPackageInfo

\* C6: when the run gives neither URL, both URL fields of the merged
\* configuration are those of the saved configuration.
C6_NoNewUrlKeepsSaved ==
    (HasMerged /\ HasSaved /\ last.newBaseUrl = "" /\ last.newFileUrl = "") =>
      /\ Merged.IsoImageBaseUrl = Saved.IsoImageBaseUrl
      /\ Merged.IsoImageFileUrl = Saved.IsoImageFileUrl

C6_Witness ==
    /\ HasMerged /\ HasSaved
    /\ last.newBaseUrl = "" /\ last.newFileUrl = ""
    /\ Saved.IsoImageBaseUrl # "" /\ Saved.IsoImageFileUrl = ""
    /\ Merged.IsoImageBaseUrl = Saved.IsoImageBaseUrl
    /\ Merged.IsoImageFileUrl = ""

\* C7: the saved extra arguments are append-only over the lineage: the
\* trimmed value saved before a merge is a prefix of the merged value, and
\* the ISO a successful run produces carries that merged value.
C7_ExtraArgsAppendOnly ==
    /\ (HasMerged /\ HasSaved) =>
          IsPrefix(TrimSpace(Saved.ExtraCommandLine), Merged.ExtraCommandLine)
    /\ (last.op # "none" /\ last.err = "") =>
          (iso # Nil /\ Deref(iso).savedConfigsFile = last.updated)

C7_Witness ==
    /\ HasMerged /\ HasSaved
    /\ last.err = ""
    /\ Saved.ExtraCommandLine = <<" ", "a", " ">>
    /\ last.newKernelArgs = <<"b">>
    /\ Merged.ExtraCommandLine = <<"a", " ", "b">>
    /\ Deref(Deref(iso).savedConfigsFile).ExtraCommandLine = <<"a", " ", "b">>

\* C8: with no saved file the merge and the persist step still run, and the
\* persisted configuration is exactly the new run's values.
C8_FirstRunPersistsNewValues ==
    (last.merged /\ ~HasSaved /\ last.fail \notin {"load", "persist"}) =>
      /\ last.persisted
      /\ last.file = {NewSavedConfigs}
      /\ last.updated = last.file

C8_Witness ==
    /\ last.merged /\ ~HasSaved
    /\ last.persisted
    /\ last.newKernelArgs # <<>> /\ last.newBaseUrl # "" /\ last.newInfo # Nil
    /\ last.file = {NewSavedConfigs}

\* C9 (as claimed): a run with both PXE URLs non-empty fails with the
\* conflict error, and before any file is written: the saved configuration
\* is not persisted and the ISO grub.cfg is not rewritten.
C9_ConflictRejectedBeforeWrites ==
    (last.op # "none" /\ last.fail = "none"
       /\ last.newBaseUrl # "" /\ last.newFileUrl # "") =>
      /\ last.err = ErrPxeConflict
      /\ ~last.persisted
      /\ ~last.isoGrubWritten

\* C10 (as claimed): when the PXE support check fails the build never fails
\* because of it: no PXE grub.cfg, no PXE artifacts, and the build succeeds,
\* also when a PXE artifacts directory was requested.
C10_VerifyFailureNeverFailsBuild ==
    (last.verifyErr # "" /\ last.fail = "none") =>
      /\ ~last.pxeGrubWritten /\ ~last.pxeDirPopulated
      /\ last.isoMade
      /\ last.err = ""

\* C10 (amended): when the PXE support check fails, updateGrubCfg does not
\* fail because of it and writes no PXE grub.cfg, no PXE artifacts are
\* produced and the ISO is still built; the build returns success when no
\* PXE artifacts directory was requested, and the error of
\* createIsoImageAndPXEFolder, after the ISO was created, when one was.
C10_VerifyFailureDegrades ==
    last.verifyErr # "" =>
      /\ last.isoGrubWritten /\ ~last.pxeGrubWritten /\ ~last.pxeDirPopulated
      /\ last.fail = "none" =>
            /\ last.isoMade
            /\ ~last.pxeDirRequested => last.err = ""
            /\ last.pxeDirRequested => last.err = ErrPxeFolder

C10_Witness ==
    /\ last.verifyErr # ""
    /\ last.fail = "none"
    /\ last.pxeDirRequested
    /\ last.isoGrubWritten /\ last.isoMade
    /\ ~last.pxeGrubWritten /\ ~last.pxeDirPopulated
    /\ last.err = ErrPxeFolder

(* ---------------------- properties of the grub.cfg -------------------- *)

\* the words of the linux lines of a grub.cfg that give root=
RootArgs(cfg) == { w \in UNION { { cfg[i].words[j] : j \in 1..Len(cfg[i].words) } : i \in { n \in 1..Len(cfg) : IsCommand(cfg[n], linuxCommand) } } : IsArg(w, "root=") }

AllWords(cfg) == UNION { { cfg[i].words[j] : j \in 1..Len(cfg[i].words) } : i \in 1..Len(cfg) }

PathOf(line) == line.words[1]

\* the kernel arguments of a linux line: its words after the path
KernelArgs(line) == Tail(line.words)

PxeWritten == grub.op # "none" /\ grub.pxeGrubCfg # Nil

FirstPath(cfg, cmd) == PathOf(cfg[FirstCommand(cfg, cmd)])

\* the lines of the command that load the path of its first line
LinesWithFirstPath(cfg, cmd) == { i \in 1..Len(cfg) : IsCommand(cfg[i], cmd) /\ PathOf(cfg[i]) = FirstPath(cfg, cmd) }

PathRewritten(input, output, cmd, path) ==
    /\ \A i \in LinesWithFirstPath(input, cmd) : PathOf(output[i]) = Word(path)
    /\ FirstPath(input, cmd) # Word(path) => FirstPath(input, cmd) \notin AllWords(output)

DirectGrubCfg(cfg) == ~isGrubMkconfigConfig(cfg) /\ HasCommand(cfg, linuxCommand) /\ HasCommand(cfg, initrdCommand)

\* C18: on a grub.cfg that grub-mkconfig did not generate, updateGrubCfg
\* succeeds, every line that loaded the old kernel path loads /boot/vmlinuz,
\* every line that loaded the old initrd path loads /boot/initrd.img, and no
\* occurrence of the old paths remains; with two linux lines on /old/vmlinuz
\* both load /boot/vmlinuz
C18_GrubPathRewrite ==
    (grub.op # "none" /\ DirectGrubCfg(grub.input)) =>
        /\ grub.fail = "none" /\ ~(grub.savedConfigs.IsoImageBaseUrl # "" /\ grub.savedConfigs.IsoImageFileUrl # "") => grub.err = ""
        /\ grub.fail # "grubWrite" => grub.isoGrubWritten
        /\ grub.isoGrubWritten =>
              /\ PathRewritten(grub.input, grub.isoGrubCfg, linuxCommand, isoKernelPath)
              /\ PathRewritten(grub.input, grub.isoGrubCfg, initrdCommand, isoInitrdPath)
              /\ grub.input = TwoEntriesGrubCfg =>
                    /\ Cardinality({ i \in 1..Len(grub.isoGrubCfg) : IsCommand(grub.isoGrubCfg[i], linuxCommand) /\ PathOf(grub.isoGrubCfg[i]) = Word("/boot/vmlinuz") }) = 2
                    /\ Word("/old/vmlinuz") \notin AllWords(grub.isoGrubCfg)

C18_Witness ==
    /\ grub.op # "none"
    /\ grub.input = TwoEntriesGrubCfg
    /\ grub.isoGrubWritten
    /\ grub.err = ""

\* a rebuild, with the options of the build before, of the ISO a full-image
\* build produced
RoundTrip ==
    /\ grub.op = "createImageFromUnchangedOS"
    /\ grub.err = ""
    /\ Deref(grub.prev).op = "createLiveOSIsoImage"
    /\ grub.newKernelArgs = Deref(grub.prev).newKernelArgs
    /\ grub.newBaseUrl = Deref(grub.prev).newBaseUrl
    /\ grub.newFileUrl = Deref(grub.prev).newFileUrl

\* C19: the rebuild leaves the squashfs image unchanged, and the kernel
\* arguments of its ISO grub.cfg are those of the first build followed by
\* one more copy of the extra arguments
C19_RoundTrip ==
    RoundTrip =>
        LET first == Deref(grub.prev).isoGrubCfg
        IN /\ grub.squashfs = Deref(grub.prev).squashfs
           /\ Len(grub.isoGrubCfg) = Len(first)
           /\ \A i \in 1..Len(first) :
                 IsCommand(first[i], linuxCommand) =>
                    KernelArgs(grub.isoGrubCfg[i]) = KernelArgs(first[i]) \o Fields(grub.newKernelArgs)

(* ------------------- properties of the steps and cleanup -------------- *)

InTrace(e) == \E i \in 1..Len(ops.trace) : ops.trace[i] = e

\* b happens only after a has happened
Precedes(a, b) == \A j \in 1..Len(ops.trace) : ops.trace[j] = b => \E i \in 1..(j - 1) : ops.trace[i] = a

\* what was acquired has been released
Released(r) == InTrace(Event("acquire", r)) => InTrace(Event("release", r))

Reverse(s) == [i \in 1..Len(s) |-> s[Len(s) + 1 - i]]

Range(s) == { s[i] : i \in 1..Len(s) }

\* C12: when an operation returns, whichever step failed, it holds no
\* mount, no loop device and no chroot
C12_NoResourceLeft ==
    ops.op # "none" => ops.held \cap (Mounts \union LoopDevices \union Chroots) = {}

C12_Witness ==
    /\ ops.op = "createLiveOSIsoImage"
    /\ ops.fail = "dracut"
    /\ InTrace(Event("acquire", "dracut chroot"))
    /\ InTrace(Event("acquire", "raw image mount"))

\* the mount is closed, then the loop device detached, then the directory removed
ReleasedInOrder(mount, loop, dir) ==
    /\ Released(mount) /\ Released(loop) /\ Released(dir)
    /\ InTrace(Event("release", loop)) /\ InTrace(Event("acquire", mount)) => Precedes(Event("release", mount), Event("release", loop))
    /\ InTrace(Event("release", dir)) /\ InTrace(Event("acquire", loop)) => Precedes(Event("release", loop), Event("release", dir))

\* C13: cleanUp removes the registered directories last-registered first;
\* on every exit path of extractIsoImageContents and of
\* createWriteableImageFromSquashfs the mount is closed before the loop
\* device is detached, and the loop device before the mount directory is removed
C13_ReverseOrderRelease ==
    ops.op # "none" =>
        /\ ops.op \in {"cleanUp", "createIsoBuilderFromIsoImage"} /\ ops.cleaned => ops.attempted = Reverse(ops.cleanupDirs)
        /\ ReleasedInOrder("iso mount", "iso loop device", "iso mount directory")
        /\ ReleasedInOrder("squashfs mount", "squashfs loop device", "squashfs mount directory")

C13_Witness ==
    /\ ops.op = "createIsoBuilderFromIsoImage"
    /\ ops.fail = "copyPartitionFiles(iso)"
    /\ ops.attempted = <<"isoExpansionFolder", "isoBuildDir">>
    /\ InTrace(Event("release", "iso mount"))

\* the directories an operation has to remove
DirsToRemove == IF ops.op = "createLiveOSIsoImage" THEN {"isoBuildDir"} ELSE Range(ops.cleanupDirs)

\* C14: the error createLiveOSIsoImage and createIsoBuilderFromIsoImage
\* return carries the error of the failed step and every clean-up failure;
\* cleanUp attempts every registered directory and reports every failure
C14_CleanupErrorsMerged ==
    (ops.op \in {"createLiveOSIsoImage", "createIsoBuilderFromIsoImage", "cleanUp"} /\ ops.cleaned) =>
        /\ ops.fail # "none" /\ ops.fail \in { e.what : e \in Range(ops.trace) } => Cause("step", ops.fail) \in Range(ops.err)
        /\ Range(ops.stepErr) \subseteq Range(ops.err)
        /\ \A d \in DirsToRemove \cap ops.rmFail : Cause("remove", d) \in Range(ops.err)
        /\ Range(ops.attempted) = DirsToRemove

C14_Witness ==
    /\ ops.op = "createIsoBuilderFromIsoImage"
    /\ ops.stepErr # <<>>
    /\ Len(ops.cleanupErr) = 2
    /\ Len(ops.err) = 3

\* C20: in the full-image build findKernelVersion and createSquashfsImage
\* come before generateInitrdImage, and the ISO grub.cfg is written before
\* createIsoImage; in the unchanged-OS rebuild the saved configuration is
\* merged before updateGrubCfg, which is before createIsoImage
C20_StepOrder ==
    /\ ops.op = "createLiveOSIsoImage" =>
          /\ Precedes(Event("step", "findKernelVersion"), Event("call", "generateInitrdImage"))
          /\ Precedes(Event("step", "mksquashfs"), Event("call", "generateInitrdImage"))
          /\ Precedes(Event("call", "createSquashfsImage"), Event("call", "generateInitrdImage"))
          /\ Precedes(Event("call", "updateGrubCfg"), Event("call", "createIsoImage"))
          /\ Precedes(Event("step", "file.Write(isoGrubCfg)"), Event("step", "isoMaker.Make"))
    /\ ops.op = "createImageFromUnchangedOS" =>
          /\ Precedes(Event("step", "persistSavedConfigs"), Event("call", "updateGrubCfg"))
          /\ Precedes(Event("step", "file.Write(isoGrubCfg)"), Event("call", "createIsoImage"))

C20_Witness ==
    /\ ops.op = "createLiveOSIsoImage"
    /\ ops.err = <<>>
    /\ InTrace(Event("call", "generateInitrdImage"))
    /\ InTrace(Event("step", "isoMaker.Make"))

(* ---------------------- properties of the classifier ---------------------- *)

ScanDone == scan.op # "none"

AssemblyReached == ScanDone /\ scan.isoWriter # Nil

\* the directory a scan records its files under
ScanTargetDir == IF scan.op = "extractBootDirFiles" THEN isoArtifactsDir ELSE isoExpansionFolder

\* the path of a scanned file relative to the scanned root
RelativePath(f) == TrimPathPrefix(f, scan.root)

ScanSlots == { "bootx64EfiPath", "grubx64EfiPath", "isoGrubCfgPath", "vmlinuzPath", "initrdImagePath", "squashfsImagePath", "savedConfigsFilePath" }

\* C15: whenever createIsoImage is reached, from a full image or from an
\* extracted ISO, the shim path and the grub path are both non-empty; when
\* one is missing after the scan of /boot the build has failed with the error
\* naming the providing package, so the ISO writer is not invoked.
C15_ShimAndGrubResolved ==
    /\ AssemblyReached => scan.a.bootx64EfiPath # <<>> /\ scan.a.grubx64EfiPath # <<>>
    /\ scan.op = "extractBootDirFiles" /\ scan.fail = "none" /\ scan.a.bootx64EfiPath = <<>> => scan.a.err = ErrNoShim
    /\ scan.op = "extractBootDirFiles" /\ scan.fail = "none" /\ scan.a.bootx64EfiPath # <<>> /\ scan.a.grubx64EfiPath = <<>> => scan.a.err = ErrNoGrub

\* the files the full-image scan must leave out: the initrd images and the
\* grub.cfg of the boot partition
RegenerableBootFiles ==
    { <<Name("boot"), <<"initrd.img", "-5.15.0">>>>,
      <<Name("boot"), <<"initramfs-", "5.15.0", ".img">>>>,
      <<Name("boot"), Name("efi"), Name("boot"), Name("grub2"), Name("grub.cfg")>> }

\* the scanned files the classification is about
ClassifiedFiles == { f \in Range(scan.files) : scan.op = "extractBootDirFiles" => RelativePath(f) \notin RegenerableBootFiles }

\* the file is recorded in the additional-files map, under its place in the
\* target directory, with its path relative to the scanned root
InAdditionalFiles(f) == \E i \in 1..Len(scan.a.additionalFiles) : scan.a.additionalFiles[i] = <<ScanTargetDir \o RelativePath(f), RelativePath(f)>>

\* the file went to an artifact slot, and the slot is set
InSlot(f) ==
    LET slot == IF scan.op = "extractBootDirFiles" THEN BootSlot(Base(f)) ELSE IsoSlot(Base(f))
    IN f \in scan.a.consumed /\ slot # "" /\ scan.a[slot] # <<>> /\ HasPathPrefix(scan.a[slot], ScanTargetDir)

\* the /boot tree of the classifier example
ExampleBootTree ==
    << writeableRootfsDir \o <<Name("boot"), Name("README")>>,
       writeableRootfsDir \o <<Name("boot"), Name("efi"), Name("EFI"), Name("BOOT"), Name("bootx64.efi")>>,
       writeableRootfsDir \o <<Name("boot"), Name("efi"), Name("EFI"), Name("BOOT"), Name("grubx64.efi")>>,
       writeableRootfsDir \o <<Name("boot"), Name("grub2"), Name("grub.cfg")>>,
       writeableRootfsDir \o <<Name("boot"), <<"vmlinuz-", "5.15.0">>>> >>

ExampleScanned == scan.op = "extractBootDirFiles" /\ scan.files = ExampleBootTree /\ scan.fail = "none" /\ scan.input = Nil

\* C16: after a scan that was not cut short by a copy failure, every
\* non-excluded file is either in an artifact slot or in the additional-files
\* map with its path relative to the scanned root, never both and never
\* neither; the example /boot tree fills the shim, grub, kernel and
\* grub-config slots and leaves exactly one additional file, README.
C16_ClassificationPartitions ==
    /\ ScanDone /\ scan.fail = "none" => \A f \in ClassifiedFiles : InSlot(f) # InAdditionalFiles(f)
    /\ ScanDone /\ scan.fail = "none" => \A f \in ClassifiedFiles : f \in scan.a.consumed <=> InSlot(f)
    /\ ExampleScanned =>
          /\ scan.a.err = ""
          /\ scan.a.bootx64EfiPath = isoArtifactsDir \o <<Name("boot"), Name("efi"), Name("EFI"), Name("BOOT"), Name("bootx64.efi")>>
          /\ scan.a.grubx64EfiPath = isoArtifactsDir \o <<Name("boot"), Name("efi"), Name("EFI"), Name("BOOT"), Name("grubx64.efi")>>
          /\ scan.a.vmlinuzPath = isoArtifactsDir \o <<Name("boot"), Name("vmlinuz")>>
          /\ scan.a.isoGrubCfgPath = isoArtifactsDir \o <<Name("boot"), Name("grub2"), Name("grub.cfg")>>
          /\ scan.a.additionalFiles = << <<isoArtifactsDir \o <<Name("boot"), Name("README")>>, <<Name("boot"), Name("README")>>>> >>

C16_Witness == ExampleScanned /\ Len(scan.a.additionalFiles) = 1 /\ scan.a.consumed # {}

\* the scanned files that match an exclusion pattern
ExcludedScanned == IF scan.op = "extractBootDirFiles" THEN { f \in Range(scan.files) : RelativePath(f) \in RegenerableBootFiles } ELSE {}

\* the ISO writer is handed a file that comes from the scanned file
HandedToIsoWriter(f) == \E w \in scan.isoWriter : \/ \E i \in 1..Len(w.files) : w.files[i].Dest = RelativePath(f) \/ w.files[i].Src = isoArtifactsDir \o RelativePath(f)
                                                  \/ isoArtifactsDir \o RelativePath(f) \in {w.initrd, w.grubCfg}

\* C17: a file of /boot that matches an exclusion pattern is never copied
\* to the artifacts directory, is in no artifact slot and not in the
\* additional-files map, and is not in what the ISO writer is handed.
C17_ExcludedNeverReachIso ==
    \A f \in ExcludedScanned :
        /\ f \notin scan.a.copied
        /\ f \notin scan.a.consumed
        /\ \A slot \in ScanSlots : scan.a[slot] # isoArtifactsDir \o RelativePath(f)
        /\ \A i \in 1..Len(scan.a.additionalFiles) : scan.a.additionalFiles[i][1] # isoArtifactsDir \o RelativePath(f) /\ scan.a.additionalFiles[i][2] # RelativePath(f)
        /\ ~HandedToIsoWriter(f)

C17_Witness == AssemblyReached /\ Cardinality(ExcludedScanned) = 3 /\ scan.a.copied # {} /\ scan.a.additionalFiles # <<>>

\* the builds on top of an input ISO, once the ISO writer is called
FullBuildOnInputIso == AssemblyReached /\ scan.op = "extractBootDirFiles" /\ scan.input # Nil

UnchangedOSBuild == AssemblyReached /\ scan.op = "createIsoBuilderFromIsoImage"

\* a file handed to the ISO writer comes from the expanded input ISO
CarriedOver(fileToCopy) == HasPathPrefix(fileToCopy.Src, isoExpansionFolder)

\* the media path of the saved-configuration file
SavedConfigsMediaPath == <<Name("azl-image-customizer"), Name("saved-configs.yaml")>>

\* the saved-configuration file the run started from: the one of the input
\* ISO, Nil without an input ISO or when the input ISO has none
InputSavedConfigsFile ==
    IF scan.op = "createIsoBuilderFromIsoImage" THEN scan.scanned.store.savedConfigsFile
    ELSE IF scan.input = Nil THEN Nil ELSE Deref(scan.input).store.savedConfigsFile

C26_UnchangedOSKeepsImages ==
    UnchangedOSBuild =>
        /\ scan.a.squashfsImagePath = scan.scanned.a.squashfsImagePath
        /\ scan.a.initrdImagePath = scan.scanned.a.initrdImagePath
        /\ scan.a.kernelVersion = scan.scanned.a.kernelVersion
        /\ scan.a.additionalFiles = scan.scanned.a.additionalFiles
        /\ \A w \in scan.isoWriter :
              /\ w.initrd = scan.scanned.a.initrdImagePath
              /\ \E i \in 1..Len(w.files) : w.files[i] = FileToCopy(scan.scanned.a.squashfsImagePath, <<Name("liveos"), Name("rootfs.img")>>)
              /\ isoExpansionFolder \o <<Name("liveos"), Name("rootfs.img")>> \in Range(scan.files)
                    => \E i \in 1..Len(w.files) : w.files[i].Src = isoExpansionFolder \o <<Name("liveos"), Name("rootfs.img")>>
              /\ isoExpansionFolder \o <<Name("boot"), Name("initrd.img")>> \in Range(scan.files)
                    => w.initrd = isoExpansionFolder \o <<Name("boot"), Name("initrd.img")>>

C26_Witness ==
    /\ UnchangedOSBuild
    /\ scan.a.squashfsImagePath = isoExpansionFolder \o <<Name("liveos"), Name("rootfs.img")>>
    /\ scan.a.initrdImagePath = isoExpansionFolder \o <<Name("boot"), Name("initrd.img")>>
    /\ scan.a.additionalFiles # <<>>
    /\ scan.a.dracutPackageInfo # scan.scanned.a.dracutPackageInfo

\* C27: in a build on top of an input ISO, no destination in the file list
\* handed to the ISO writer is supplied both by a file carried over from the
\* input ISO and by a file generated or configured in this run.
C27_CarriedOverNeverShadowsNew ==
    FullBuildOnInputIso =>
        \A w \in scan.isoWriter : \A i, j \in 1..Len(w.files) :
            CarriedOver(w.files[i]) /\ ~CarriedOver(w.files[j]) => w.files[i].Dest # w.files[j].Dest

(* ---------------------- properties of the disk size ---------------------- *)

DiskEstimated == disk.op # "none" /\ disk.err = ""

\* C22: the estimate, in whole megabytes, is at least 1.5 times the content
\* size in bytes: the product is rounded up, never down.
C22_EstimateCoversContent == DiskEstimated => disk.safeDiskSizeMB * MiB * 2 >= disk.sizeInBytes * 3

\* C30: the disk is larger than the end of the ESP partition at 9 MiB, so
\* the root partition that starts there has a positive size.
C30_LayoutFitsDisk == DiskEstimated => \A d \in disk.diskConfig : d.maxDiskSizeMB > d.bootPartitionEnd /\ d.maxDiskSizeMB > d.rootfsStart

(* -------------------- properties of the directories -------------------- *)

PxeDirPopulated == fsys.op = "populatePXEArtifactsDir" /\ fsys.err = ""

\* C24: after populatePXEArtifactsDir succeeds the directory has bootx64.efi
\* and grubx64.efi at its root, no efi subtree, boot/grub2/grub.cfg with the
\* content of the PXE grub configuration, no boot/grub2/grub-pxe.cfg and a
\* copy of the ISO named <outputImageBase>.iso; nothing it held before is left.
C24_PxeDirContents ==
    PxeDirPopulated =>
        /\ File(<<Name("bootx64.efi")>>, "shim") \in fsys.tree
        /\ File(<<Name("grubx64.efi")>>, "grub") \in fsys.tree
        /\ \A f \in fsys.tree : Head(f.path) # Name("efi")
        /\ File(<<Name("boot"), Name("grub2"), Name("grub.cfg")>>, "pxe grub.cfg") \in fsys.tree
        /\ ~Exists(fsys.tree, <<Name("boot"), Name("grub2"), Name("grub-pxe.cfg")>>)
        /\ File(<< <<fsys.outputImageBase, ".iso">> >>, "iso image") \in fsys.tree
        /\ \A f \in fsys.tree : f.content # "stale"
        /\ \A f, g \in fsys.tree : f.path = g.path => f = g

C24_Witness == PxeDirPopulated /\ Cardinality(fsys.before) = 3 /\ Cardinality(fsys.isoMedia) = 6

RootfsPrepared == fsys.op = "prepareRootfsForDracut"

\* C29: prepareRootfsForDracut succeeds on a directory with or without
\* /etc/fstab when the write of the configuration does not fail; afterwards
\* /etc/fstab is absent and 20-live-cd.conf holds the LiveOS configuration,
\* and a second call on the same directory succeeds with the same state.
C29_PrepareRootfsAppliesCleanly ==
    RootfsPrepared /\ fsys.fail = "none" =>
        /\ fsys.err = ""
        /\ ~Exists(fsys.tree, fstabFile)
        /\ File(targetConfigFile, dracutConfig) \in fsys.tree
        /\ fsys.applications > 1 => fsys.tree = fsys.before

(* ------------------ the PXE grub.cfg and the ISO grub.cfg ------------------ *)

\* a line of the PXE grub.cfg, from the line of the ISO grub.cfg
ExpectedPxeLine(l, rootValue) ==
    IF l.cmd = "linux"
    THEN [ l EXCEPT !.words = [j \in 1..Len(l.words) |-> IF IsArg(l.words[j], "root=") THEN <<"root=">> \o rootValue ELSE l.words[j]]
                               \o << <<"ip=dhcp">>, <<"rd.live.azldownloader=enable">> >> ]
    ELSE l

\* the ISO grub.cfg without its search commands, root= set and the
\* network-boot arguments appended
ExpectedPxe(cfg, rootValue) ==
    LET kept == SelectSeq(cfg, LAMBDA l : l.cmd # "search")
    IN [i \in 1..Len(kept) |-> ExpectedPxeLine(kept[i], rootValue)]

\* the ISO grub.cfg the same update writes when no PXE grub.cfg is derived
IsoGrubCfgWithoutPxe == updateGrubCfgText(grub.input, [grub.savedConfigs EXCEPT !.DracutPackageInfo = Nil], grub.outputImageBase, "none").isoCfg

PxeAttempted == grub.op # "none" /\ grub.isoGrubWritten /\ verifyDracutPXESupport(grub.savedConfigs.DracutPackageInfo) = ""

\* C25: the PXE grub.cfg is derived from the text that was written as the
\* ISO grub.cfg: it is that text with the search commands removed, root= set
\* to live:<URL> and the network-boot arguments appended; and the ISO
\* grub.cfg is what it is without a PXE derivation, also when the PXE
\* derivation fails.
C25_PxeFromIsoGrubCfg ==
    /\ PxeWritten => grub.isoGrubWritten
    /\ PxeWritten => Deref(grub.pxeGrubCfg) = ExpectedPxe(grub.isoGrubCfg, PxeRootValue(grub.savedConfigs.IsoImageBaseUrl, grub.savedConfigs.IsoImageFileUrl, grub.outputImageBase))
    /\ PxeAttempted => {grub.isoGrubCfg} = IsoGrubCfgWithoutPxe
    /\ PxeAttempted => \A w \in RootArgs(grub.isoGrubCfg) : w = <<"root=">> \o rootValueLiveOS

C25_Witness == PxeWritten /\ HasCommand(grub.isoGrubCfg, "search") /\ RootArgs(Deref(grub.pxeGrubCfg)) # {} /\ grub.op = "createImageFromUnchangedOS"

(* ------------------- failures of the steps of a build ------------------- *)

\* the positions of the trace where a step ran
StepPositions == { i \in 1..Len(ops.trace) : ops.trace[i].ev = "step" }

BuildDone == ops.op \in { "createLiveOSIsoImage", "createImageFromUnchangedOS" }

\* the step that failed: the one the error names
FailedStep == ops.stepErr[1][2]

C28_RequiredPackages ==
    ops.op = "createLiveOSIsoImage" =>
        /\ \A i \in 1..Len(requiredRpmChecks) : Precedes(Event("step", requiredRpmChecks[i]), Event("step", "dracut"))
        /\ Precedes(Event("step", "dracut"), Event("assign", "initrdImagePath"))
        /\ \A rpm \in { "squashfs-tools", "tar", "device-mapper", "curl" } :
              LET check == CASE rpm = "squashfs-tools" -> "isPackageInstalled(squashfs-tools)"
                             [] rpm = "tar" -> "isPackageInstalled(tar)"
                             [] rpm = "device-mapper" -> "isPackageInstalled(device-mapper)"
                             [] rpm = "curl" -> "isPackageInstalled(curl)"
              IN ops.fail = check =>
                    /\ ops.stepErr = <<Cause("step", check)>>
                    /\ ~InTrace(Event("step", "dracut"))
                    /\ ~InTrace(Event("assign", "initrdImagePath"))
                    /\ InTrace(Event("acquire", "dracut chroot")) /\ InTrace(Event("release", "dracut chroot"))
                    /\ "dracut chroot" \notin ops.held

C28_Witness == ops.op = "createLiveOSIsoImage" /\ ops.fail = "isPackageInstalled(curl)" /\ InTrace(Event("step", "isPackageInstalled(device-mapper)")) /\ ops.err # <<>>

====
